---- MODULE Spec2Model ----
(***************************************************************************)
(* Model of the netclaw BGP speaker: the agent (bgp/agent.py), the best    *)
(* path selector (bgp/path_selection.py) and the control daemon            *)
(* (bgp-daemon-v2.py).                                                     *)
(*                                                                         *)
(* Python dicts are functions whose DOMAIN is the set of keys; lists are   *)
(* sequences; None is an absent key.  IP addresses are the strings the     *)
(* code uses, and inet_aton / ip_address are the table Octets.             *)
(***************************************************************************)
EXTENDS Integers, Sequences, FiniteSets, TLC

\* ------------------------------------------------------------------ constants
ATTR_ORIGIN == 1
ATTR_AS_PATH == 2
ATTR_NEXT_HOP == 3
ATTR_MED == 4
ATTR_LOCAL_PREF == 5

ORIGIN_IGP == 0
ORIGIN_EGP == 1
ORIGIN_INCOMPLETE == 2

AS_SET == 1
AS_SEQUENCE == 2

DEFAULT_LOCAL_PREF == 100

\* the daemon's environment defaults
ROUTER_ID == "4.4.4.4"
LOCAL_AS == 65001

\* the agent's copies of the two
router_id == ROUTER_ID
local_as == LOCAL_AS

\* ------------------------------------------------------------------ universe
\* keys of the agent's session table: peer IPs, or a synthetic mesh key
EBGP1 == "172.16.0.1"
IBGP1 == "10.0.0.2"
IBGP2 == "10.0.0.3"
MESH1 == "mesh-as65002"

PeerKeys == {EBGP1, IBGP1, IBGP2, MESH1}

PFX_A == "10.0.0.0/8"
PFX_B == "10.99.99.0/24"

Prefixes == {PFX_A, PFX_B}

\* socket.inet_aton / ipaddress.ip_address on the addresses of the model
Octets(ip) ==
    CASE ip = "4.4.4.4"    -> <<4, 4, 4, 4>>
      [] ip = "172.16.0.1" -> <<172, 16, 0, 1>>
      [] ip = "172.16.0.2" -> <<172, 16, 0, 2>>
      [] ip = "10.0.0.1"   -> <<10, 0, 0, 1>>
      [] ip = "10.0.0.2"   -> <<10, 0, 0, 2>>
      [] ip = "10.0.0.3"   -> <<10, 0, 0, 3>>
      [] ip = "1.1.1.1"    -> <<1, 1, 1, 1>>
      [] ip = "9.9.9.9"    -> <<9, 9, 9, 9>>
      [] OTHER             -> <<>>

\* a string that inet_aton / ip_address accepts
IsIp(ip) == Octets(ip) # <<>>

\* struct.unpack("!I", inet_aton(a)) < struct.unpack("!I", inet_aton(b)):
\* big-endian 32-bit order is the lexicographic order of the four octets
IpLess(a, b) ==
    LET x == Octets(a)
        y == Octets(b)
    IN \E i \in 1..4 : /\ x[i] < y[i]
                       /\ \A j \in 1..(i - 1) : x[j] = y[j]

\* BGPSessionConfig of each key of the universe; peer_router_id "" is the
\* unset (falsy) value
SessionConfig(key) ==
    CASE key = EBGP1 -> [peer_ip |-> EBGP1, peer_as |-> 65000, local_ip |-> "172.16.0.2",
                         passive |-> FALSE, accept_any_source |-> FALSE,
                         peer_router_id |-> ""]
      [] key = IBGP1 -> [peer_ip |-> IBGP1, peer_as |-> 65001, local_ip |-> "10.0.0.1",
                         passive |-> FALSE, accept_any_source |-> FALSE,
                         peer_router_id |-> "9.9.9.9"]
      [] key = IBGP2 -> [peer_ip |-> IBGP2, peer_as |-> 65001, local_ip |-> "10.0.0.1",
                         passive |-> TRUE, accept_any_source |-> FALSE,
                         peer_router_id |-> ""]
      [] key = MESH1 -> [peer_ip |-> MESH1, peer_as |-> 65002, local_ip |-> "10.0.0.1",
                         passive |-> TRUE, accept_any_source |-> TRUE,
                         peer_router_id |-> ""]

\* ------------------------------------------------------------------ attributes
\* a path attribute: type_code and the value field its class carries
OriginAttribute(o) == [type_code |-> ATTR_ORIGIN, val |-> o, ip |-> "", segments |-> <<>>]
ASPathAttribute(segs) == [type_code |-> ATTR_AS_PATH, val |-> 0, ip |-> "", segments |-> segs]
NextHopAttribute(nh) == [type_code |-> ATTR_NEXT_HOP, val |-> 0, ip |-> nh, segments |-> <<>>]
MedAttribute(m) == [type_code |-> ATTR_MED, val |-> m, ip |-> "", segments |-> <<>>]
LocalPrefAttribute(lp) == [type_code |-> ATTR_LOCAL_PREF, val |-> lp, ip |-> "", segments |-> <<>>]

Segment(t, l) == [seg_type |-> t, as_list |-> l]

\* BGPRoute.has_attribute / get_attribute on the route's attribute dict
\* (a sequence in insertion order with distinct type codes)
has_attribute(route, code) ==
    \E i \in 1..Len(route.path_attributes) : route.path_attributes[i].type_code = code

get_attribute(route, code) ==
    LET i == CHOOSE i \in 1..Len(route.path_attributes) :
                 route.path_attributes[i].type_code = code
    IN route.path_attributes[i]

\* ASPathAttribute.length(): an AS_SET counts 1, an AS_SEQUENCE each AS
RECURSIVE as_path_length(_)
as_path_length(segs) ==
    IF segs = <<>> THEN 0
    ELSE (IF Head(segs).seg_type = AS_SET THEN 1 ELSE Len(Head(segs).as_list))
         + as_path_length(Tail(segs))

\* ASPathAttribute.prepend(asn): into the leading AS_SEQUENCE, or as a new
\* leading AS_SEQUENCE segment
prepend(segs, asn) ==
    IF segs # <<>> /\ Head(segs).seg_type = AS_SEQUENCE
    THEN <<Segment(AS_SEQUENCE, <<asn>> \o Head(segs).as_list)>> \o Tail(segs)
    ELSE <<Segment(AS_SEQUENCE, <<asn>>)>> \o segs

\* the leftmost AS of a segment list, 0 when there is none
leftmost_as(segs) ==
    IF segs # <<>> /\ Head(segs).as_list # <<>> THEN Head(segs).as_list[1] ELSE 0

\* ------------------------------------------------------------------ best path
\* the first AS of the AS_PATH; 0 stands for None
_get_neighbor_as(route) ==
    IF ~has_attribute(route, ATTR_AS_PATH) THEN 0
    ELSE leftmost_as(get_attribute(route, ATTR_AS_PATH).segments)

_compare_local_pref(route_a, route_b) ==
    LET local_pref_a == IF has_attribute(route_a, ATTR_LOCAL_PREF)
                        THEN get_attribute(route_a, ATTR_LOCAL_PREF).val
                        ELSE DEFAULT_LOCAL_PREF
        local_pref_b == IF has_attribute(route_b, ATTR_LOCAL_PREF)
                        THEN get_attribute(route_b, ATTR_LOCAL_PREF).val
                        ELSE DEFAULT_LOCAL_PREF
    IN IF local_pref_a > local_pref_b THEN -1
       ELSE IF local_pref_a < local_pref_b THEN 1
       ELSE 0

_compare_as_path_length(route_a, route_b) ==
    LET length_a == IF has_attribute(route_a, ATTR_AS_PATH)
                    THEN as_path_length(get_attribute(route_a, ATTR_AS_PATH).segments)
                    ELSE 0
        length_b == IF has_attribute(route_b, ATTR_AS_PATH)
                    THEN as_path_length(get_attribute(route_b, ATTR_AS_PATH).segments)
                    ELSE 0
    IN IF length_a < length_b THEN -1
       ELSE IF length_a > length_b THEN 1
       ELSE 0

_compare_origin(route_a, route_b) ==
    LET origin_a == IF has_attribute(route_a, ATTR_ORIGIN)
                    THEN get_attribute(route_a, ATTR_ORIGIN).val
                    ELSE ORIGIN_INCOMPLETE
        origin_b == IF has_attribute(route_b, ATTR_ORIGIN)
                    THEN get_attribute(route_b, ATTR_ORIGIN).val
                    ELSE ORIGIN_INCOMPLETE
    IN IF origin_a < origin_b THEN -1
       ELSE IF origin_a > origin_b THEN 1
       ELSE 0

_compare_med(route_a, route_b) ==
    IF _get_neighbor_as(route_a) # _get_neighbor_as(route_b) THEN 0
    ELSE LET med_a == IF has_attribute(route_a, ATTR_MED)
                      THEN get_attribute(route_a, ATTR_MED).val ELSE 0
             med_b == IF has_attribute(route_b, ATTR_MED)
                      THEN get_attribute(route_b, ATTR_MED).val ELSE 0
         IN IF med_a < med_b THEN -1
            ELSE IF med_a > med_b THEN 1
            ELSE 0

_compare_ebgp_ibgp(route_a, route_b) ==
    LET is_ebgp_a == _get_neighbor_as(route_a) # local_as
        is_ebgp_b == _get_neighbor_as(route_b) # local_as
    IN IF is_ebgp_a /\ ~is_ebgp_b THEN -1
       ELSE IF ~is_ebgp_a /\ is_ebgp_b THEN 1
       ELSE 0

\* BestPathSelector.igp_cost_lookup: next hop -> cost, NoCost for None; the
\* empty function is the unset callback (the agent constructs its selector
\* without one)
VARIABLE igp_cost_lookup

NoCost == -1

\* BGPRoute.next_hop: the NEXT_HOP attribute's address, "" for None
next_hop(route) ==
    IF has_attribute(route, ATTR_NEXT_HOP) THEN get_attribute(route, ATTR_NEXT_HOP).ip ELSE ""

\* the comparison once both costs are looked up
compare_costs(cost_a, cost_b) ==
    IF cost_a = NoCost /\ cost_b = NoCost THEN 0
    ELSE IF cost_a = NoCost THEN 1
    ELSE IF cost_b = NoCost THEN -1
    ELSE IF cost_a < cost_b THEN -1
    ELSE IF cost_a > cost_b THEN 1
    ELSE 0

\* the step with an unreachable next hop treated like a missing one: skipped
\* unless both costs are known
_compare_igp_metric_both_known(route_a, route_b) ==
    IF DOMAIN igp_cost_lookup = {} THEN 0
    ELSE IF next_hop(route_a) = "" \/ next_hop(route_b) = "" THEN 0
    ELSE IF next_hop(route_a) \notin DOMAIN igp_cost_lookup
            \/ next_hop(route_b) \notin DOMAIN igp_cost_lookup THEN 0
    ELSE IF igp_cost_lookup[next_hop(route_a)] = NoCost
            \/ igp_cost_lookup[next_hop(route_b)] = NoCost THEN 0
    ELSE compare_costs(igp_cost_lookup[next_hop(route_a)], igp_cost_lookup[next_hop(route_b)])

\* "if not self.igp_cost_lookup: return 0"; a lookup that raises returns 0 too
_compare_igp_metric(route_a, route_b) ==
    IF DOMAIN igp_cost_lookup = {} THEN 0
    ELSE IF next_hop(route_a) = "" \/ next_hop(route_b) = "" THEN 0
    ELSE IF next_hop(route_a) \notin DOMAIN igp_cost_lookup
            \/ next_hop(route_b) \notin DOMAIN igp_cost_lookup THEN 0
    ELSE compare_costs(igp_cost_lookup[next_hop(route_a)], igp_cost_lookup[next_hop(route_b)])

_compare_age(route_a, route_b) ==
    IF route_a.timestamp < route_b.timestamp THEN -1
    ELSE IF route_a.timestamp > route_b.timestamp THEN 1
    ELSE 0

\* int(ip_address(x)) order, with the string-order fallback when either
\* operand is no IP address (equal strings are the only case the model needs)
_compare_ip_strings(a, b) ==
    IF IsIp(a) /\ IsIp(b)
    THEN (IF IpLess(a, b) THEN -1 ELSE IF IpLess(b, a) THEN 1 ELSE 0)
    ELSE (IF a = b THEN 0 ELSE IF IsIp(a) THEN -1 ELSE 1)

_compare_router_id(route_a, route_b) == _compare_ip_strings(route_a.peer_id, route_b.peer_id)

_compare_peer_ip(route_a, route_b) == _compare_ip_strings(route_a.peer_ip, route_b.peer_ip)

\* compare with the tie-breakers on the advertising peer exchanged: the peer
\* IP before the router ID
compare_peer_ip_first(route_a, route_b) ==
    LET steps == << _compare_local_pref(route_a, route_b),
                    _compare_as_path_length(route_a, route_b),
                    _compare_origin(route_a, route_b),
                    _compare_med(route_a, route_b),
                    _compare_ebgp_ibgp(route_a, route_b),
                    _compare_igp_metric(route_a, route_b),
                    _compare_age(route_a, route_b),
                    _compare_peer_ip(route_a, route_b),
                    _compare_router_id(route_a, route_b) >>
    IN IF \A i \in 1..9 : steps[i] = 0 THEN 0
       ELSE steps[CHOOSE i \in 1..9 : steps[i] # 0 /\ \A j \in 1..(i - 1) : steps[j] = 0]

\* the first non-zero result of the nine steps, in order
compare(route_a, route_b) ==
    LET steps == << _compare_local_pref(route_a, route_b),
                    _compare_as_path_length(route_a, route_b),
                    _compare_origin(route_a, route_b),
                    _compare_med(route_a, route_b),
                    _compare_ebgp_ibgp(route_a, route_b),
                    _compare_igp_metric(route_a, route_b),
                    _compare_age(route_a, route_b),
                    _compare_router_id(route_a, route_b),
                    _compare_peer_ip(route_a, route_b) >>
    IN IF \A i \in 1..9 : steps[i] = 0 THEN 0
       ELSE steps[CHOOSE i \in 1..9 : steps[i] # 0 /\ \A j \in 1..(i - 1) : steps[j] = 0]

\* select_best's loop over candidates[1:], keeping the running best
RECURSIVE select_best_from(_, _)
select_best_from(best, rest) ==
    IF rest = <<>> THEN best
    ELSE select_best_from(IF compare(best, Head(rest)) > 0 THEN Head(rest) ELSE best,
                          Tail(rest))

\* select_best on a non-empty candidate list
select_best(routes) ==
    IF Len(routes) = 1 THEN routes[1]
    ELSE select_best_from(routes[1], Tail(routes))

\* ------------------------------------------------------------------ state
VARIABLES
    sessions,      \* agent.sessions: the keys, in insertion order
    fsm,           \* session.fsm.state of each key's session
    adj_rib_in,    \* session.adj_rib_in: prefix -> route
    adj_rib_out,   \* session.adj_rib_out: the prefixes advertised and not withdrawn
    loc_rib,       \* agent.loc_rib: prefix -> route
    import_reject, \* the keys whose import policy rejects every route
    tasks,         \* coroutines scheduled with asyncio.create_task, not yet run
    now,           \* the clock that stamps routes
    sent,          \* the UPDATEs written by the last step
    last           \* the last step taken

VARIABLES
    mesh_sessions, \* agent.mesh_sessions: peer AS -> key of the mesh session
    writer,        \* session.writer of each key: the connection it holds
    outbound,      \* the TCP connection each session initiates itself
    conn,          \* the inbound connections, each with its handler coroutine
    pending_open,  \* session._pending_open: the pre-read OPEN, NoOpen for None
    prep,          \* one call of _prepare_attributes_for_advertisement
    injected,      \* the daemon's _injected_routes
    configs,       \* session.config of each peer added through the daemon
    cmp,           \* one call of BestPathSelector.compare
    raised,        \* the exception a call of _advertise_routes was left by
    api,           \* the daemon's last call: advertise_route or withdraw_route
    announced,     \* the prefixes the daemon's UPDATEs announced to each session
    agent,         \* BGPAgent.running, .server, .decision_process_task and stop()
    speaker,       \* BGPSpeaker.rib and the connector's last call
    prev_states,   \* the daemon's main loop: prev_states, peer -> state name
    sel,           \* one call of BestPathSelector.select_best
    manager,       \* the GREManager's tunnel tables
    tunnel         \* one GRETunnel: its state, keepalive and sequence counters

connvars == <<mesh_sessions, writer, outbound, conn, pending_open>>

more == <<prev_states, sel, manager, tunnel>>

extra == <<configs, cmp, igp_cost_lookup, raised, api, announced, agent, speaker, more>>

vars == <<sessions, fsm, adj_rib_in, adj_rib_out, loc_rib, import_reject, tasks, now,
          sent, last, mesh_sessions, writer, outbound, conn, pending_open, prep, injected,
          configs, cmp, igp_cost_lookup, raised, api, announced, agent, speaker, more>>

STATE_IDLE == "Idle"
STATE_CONNECT == "Connect"
STATE_ACTIVE == "Active"
STATE_OPENSENT == "OpenSent"
STATE_OPENCONFIRM == "OpenConfirm"
STATE_ESTABLISHED == "Established"

\* the keys of agent.sessions as a set
SessionKeys == {sessions[i] : i \in 1..Len(sessions)}

\* BGPSession.is_established()
is_established(key) == fsm[key] = STATE_ESTABLISHED

\* the established sessions, in the order of agent.sessions.values()
EstablishedSessions == SelectSeq(sessions, is_established)

\* BGPRoute(...)
BGPRoute(prefix, attrs, pid, pip, src, ts) ==
    [prefix |-> prefix, path_attributes |-> attrs, peer_id |-> pid, peer_ip |-> pip,
     source |-> src, timestamp |-> ts]

\* dict helpers: d[k] = v, and del d[k]
DictSet(d, k, v) == [x \in DOMAIN d \cup {k} |-> IF x = k THEN v ELSE d[x]]
DictDel(d, k) == [x \in DOMAIN d \ {k} |-> d[x]]
EmptyDict == [x \in {} |-> 0]

\* no comparison is under way
CmpIdle == [route_a |-> BGPRoute("", <<>>, "", "", "", 0),
            route_b |-> BGPRoute("", <<>>, "", "", "", 0), result |-> 0, done |-> FALSE]

\* no send has raised: key is the session whose send raised, skipped the
\* UPDATEs of the iterations the loop did not reach
NoRaise == [key |-> "", skipped |-> {}]

\* the agent as __init__ leaves it: stop is how a call of stop() ended and
\* stopped the sessions whose stop() has returned
AgentNew ==
    [running |-> FALSE, server |-> "none", decision_process_task |-> "none",
     stop |-> "", stopped |-> {}]

\* the speaker before the connector has touched it: rib is speaker.rib (no
\* attribute and the empty dict behave alike), the rest is the connector's
\* last call and what it returned
SpeakerNew == [rib |-> {}, op |-> "", network |-> "", success |-> FALSE, routes |-> {}]

\* no call of select_best is under way
SelIdle == [candidates |-> <<>>, best |-> BGPRoute("", <<>>, "", "", "", 0), done |-> FALSE]

\* the GREManager as __init__ leaves it
ManagerNew == [_tunnels |-> [x \in {} |-> 0], _tunnels_by_endpoint |-> [x \in {} |-> 0],
               call |-> [op |-> "", name |-> "", local_ip |-> "", remote_ip |-> "",
                         result |-> ""]]

\* a 32-bit sequence number as its two 16-bit halves, high half first
SeqZero == <<0, 0>>

\* "seq = None": the header carries no sequence number
NoSeq == <<-1, -1>>

\* GRETunnel(config) as __init__ leaves it, for a config with the given
\* use_sequence and keepalive_interval; sequence_tx is 0 in a new tunnel.
\* wire lists the sequence numbers of the packets handed to the socket
\* since, base is the counter they started from
GRETunnelInit(use_sequence, keepalive_interval, sequence_tx) ==
    [use_sequence |-> use_sequence, keepalive_interval |-> keepalive_interval,
     state |-> "down", state_reason |-> "", socket |-> FALSE,
     sequence_tx |-> sequence_tx, base |-> sequence_tx, wire |-> <<>>, attempts |-> 0,
     starts |-> 0,
     keepalive_failures |-> 0, last_keepalive_rx |-> FALSE, since_rx |-> 0,
     call |-> [op |-> "", result |-> FALSE]]

TunnelNew == GRETunnelInit(FALSE, 10, SeqZero)

\* the daemon's main loop has not polled, no selection is under way and no
\* tunnel exists
MoreIdle ==
    /\ prev_states = [x \in {} |-> 0]
    /\ sel = SelIdle
    /\ manager = ManagerNew
    /\ tunnel = TunnelNew

\* the daemon's API has not been called
NoCall == [op |-> "", key |-> "", result |-> FALSE]

\* nothing has been added through the daemon, the selector is the agent's,
\* no send has raised and the daemon has sent nothing
ExtraIdle ==
    /\ configs = EmptyDict
    /\ cmp = CmpIdle
    /\ igp_cost_lookup = EmptyDict
    /\ raised = NoRaise
    /\ api = NoCall
    /\ announced = EmptyDict
    /\ agent = AgentNew
    /\ speaker = SpeakerNew
    /\ MoreIdle

\* the permutations of a finite set, as sequences (the orders in which a
\* Python set or a list built from one can be iterated)
Orders(S) ==
    {f \in [1..Cardinality(S) -> S] : \A i, j \in 1..Cardinality(S) : i # j => f[i] # f[j]}

\* PolicyEngine.apply_import_policy(route, peer_id): the route, or nothing
import_accepts(route, peer_id) == peer_id \notin import_reject

\* ------------------------------------------------------------------ advertisement
\* the first AS of the route's AS_PATH; 0 stands for None
_get_route_peer_as(route) ==
    IF ~has_attribute(route, ATTR_AS_PATH) THEN 0
    ELSE leftmost_as(get_attribute(route, ATTR_AS_PATH).segments)

\* no RouteReflector is enabled: the standard rules apply
_should_advertise_to_peer(route, key) ==
    IF route.source = "local" THEN TRUE
    ELSE IF route.peer_id = key THEN FALSE
    ELSE LET is_route_ibgp == _get_route_peer_as(route) = local_as
             is_session_ibgp == SessionConfig(key).peer_as = local_as
         IN ~(is_route_ibgp /\ is_session_ibgp)

\* list.insert(pos, x), pos counted from 0
ListInsert(l, pos, x) ==
    LET n == IF pos > Len(l) THEN Len(l) ELSE pos
    IN SubSeq(l, 1, n) \o <<x>> \o SubSeq(l, n + 1, Len(l))

\* the loop with the AS_PATH copied and never prepended
RECURSIVE prepare_loop_no_prepend(_, _)
prepare_loop_no_prepend(attributes, key) ==
    IF attributes = <<>> THEN <<>>
    ELSE LET attr == Head(attributes)
             ebgp == SessionConfig(key).peer_as # local_as
             out == CASE attr.type_code = ATTR_NEXT_HOP ->
                             <<NextHopAttribute(SessionConfig(key).local_ip)>>
                      [] attr.type_code = ATTR_LOCAL_PREF ->
                             IF ebgp THEN <<>> ELSE <<attr>>
                      [] OTHER -> <<attr>>
         IN out \o prepare_loop_no_prepend(Tail(attributes), key)

\* the loop over the attributes: what each one contributes to "modified"
RECURSIVE prepare_loop(_, _)
prepare_loop(attributes, key) ==
    IF attributes = <<>> THEN <<>>
    ELSE LET attr == Head(attributes)
             ebgp == SessionConfig(key).peer_as # local_as
             out == CASE attr.type_code = ATTR_ORIGIN -> <<attr>>
                      [] attr.type_code = ATTR_NEXT_HOP ->
                             <<NextHopAttribute(SessionConfig(key).local_ip)>>
                      [] attr.type_code = ATTR_AS_PATH ->
                             <<ASPathAttribute(IF ebgp THEN prepend(attr.segments, local_as)
                                               ELSE attr.segments)>>
                      [] attr.type_code = ATTR_LOCAL_PREF ->
                             IF ebgp THEN <<>> ELSE <<attr>>
                      [] OTHER -> <<attr>>
         IN out \o prepare_loop(Tail(attributes), key)

\* the attribute list of the caller after the call: the AS_PATH is prepended
\* on a deep copy, so the caller's list is as it was
prepare_leaves(attributes, key) == attributes

\* _prepare_attributes_for_advertisement: the list to send ("modified") and
\* the caller's list after the call ("attributes")
_prepare_attributes_for_advertisement(attributes, key) ==
    LET has(code) == \E i \in 1..Len(attributes) : attributes[i].type_code = code
        has_origin == has(ATTR_ORIGIN)
        has_as_path == has(ATTR_AS_PATH)
        has_next_hop == has(ATTR_NEXT_HOP)
        ebgp == SessionConfig(key).peer_as # local_as
        m0 == prepare_loop(attributes, key)
        m1 == IF has_origin THEN m0 ELSE ListInsert(m0, 0, OriginAttribute(ORIGIN_IGP))
        m2 == IF has_as_path THEN m1
              ELSE ListInsert(m1, IF has_origin THEN 1 ELSE 0,
                              ASPathAttribute(IF ebgp THEN prepend(<<>>, local_as) ELSE <<>>))
        m3 == IF has_next_hop THEN m2
              ELSE ListInsert(m2, (IF has_origin THEN 1 ELSE 0) + (IF has_as_path THEN 1 ELSE 0),
                              NextHopAttribute(SessionConfig(key).local_ip))
        has_local_pref == \E i \in 1..Len(m3) : m3[i].type_code = ATTR_LOCAL_PREF
        m4 == IF ~ebgp /\ ~has_local_pref
              THEN Append(m3, LocalPrefAttribute(DEFAULT_LOCAL_PREF))
              ELSE m3
    IN [modified |-> m4, attributes |-> prepare_leaves(attributes, key)]

\* BGPUpdate(withdrawn_routes, path_attributes, nlri) as written to a session
BGPUpdate(key, withdrawn, attrs, nlri) ==
    [to |-> key, withdrawn_routes |-> withdrawn, path_attributes |-> attrs, nlri |-> nlri]

\* the loop body that never fills the withdrawn list
advertise_to_no_withdraw(key, changed_prefixes, loc) ==
    LET adv(p) == /\ p \in DOMAIN loc
                  /\ _should_advertise_to_peer(loc[p], key)
        nlri == SelectSeq(changed_prefixes, adv)
        prepared == _prepare_attributes_for_advertisement(loc[nlri[1]].path_attributes, key)
    IN IF nlri = <<>> THEN [updates |-> {}, loc |-> loc]
       ELSE [updates |-> {BGPUpdate(key, <<>>, prepared.modified, nlri)},
             loc |-> [loc EXCEPT ![nlri[1]].path_attributes = prepared.attributes]]

\* the body of _advertise_routes' loop for one established session: the
\* UPDATE it sends (if any) and Loc-RIB after the attributes were prepared
advertise_to(key, changed_prefixes, loc) ==
    LET adv(p) == /\ p \in DOMAIN loc
                  /\ _should_advertise_to_peer(loc[p], key)
        gone(p) == p \notin DOMAIN loc
        nlri == SelectSeq(changed_prefixes, adv)
        withdrawn == SelectSeq(changed_prefixes, gone)
        prepared == _prepare_attributes_for_advertisement(loc[nlri[1]].path_attributes, key)
    IN IF nlri = <<>> /\ withdrawn = <<>> THEN [updates |-> {}, loc |-> loc]
       ELSE IF nlri = <<>> THEN [updates |-> {BGPUpdate(key, withdrawn, <<>>, nlri)},
                                 loc |-> loc]
       ELSE [updates |-> {BGPUpdate(key, withdrawn, prepared.modified, nlri)},
             loc |-> [loc EXCEPT ![nlri[1]].path_attributes = prepared.attributes]]

\* the UPDATEs of one session joined with those of the sessions after it
advertise_join(updates, rest) == [updates |-> updates \cup rest.updates, loc |-> rest.loc]

\* _advertise_routes(changed_prefixes) over the established sessions in order
RECURSIVE _advertise_routes(_, _, _)
advertise_next(one, targets, changed_prefixes) ==
    advertise_join(one.updates, _advertise_routes(targets, changed_prefixes, one.loc))

_advertise_routes(targets, changed_prefixes, loc) ==
    IF targets = <<>> THEN [updates |-> {}, loc |-> loc]
    ELSE advertise_next(advertise_to(Head(targets), changed_prefixes, loc),
                        Tail(targets), changed_prefixes)

\* session._send_message(update) on Adj-RIB-Out: the NLRI enter it, the
\* withdrawn routes leave it
Range(q) == {q[i] : i \in 1..Len(q)}

adj_rib_out_after(out, updates) ==
    [k \in DOMAIN out |->
        IF \E u \in updates : u.to = k
        THEN LET u == CHOOSE u \in updates : u.to = k
             IN (out[k] \ Range(u.withdrawn_routes)) \cup Range(u.nlri)
        ELSE out[k]]

\* ------------------------------------------------------------------ decision process
\* the candidates for a prefix: the Adj-RIB-In routes of the established
\* sessions, in session order, that pass the import policy
candidates(prefix) ==
    LET has(k) == /\ is_established(k)
                  /\ prefix \in DOMAIN adj_rib_in[k]
                  /\ import_accepts(adj_rib_in[k][prefix], k)
        keys == SelectSeq(sessions, has)
    IN [i \in 1..Len(keys) |-> adj_rib_in[keys[i]][prefix]]

\* "Collect all prefixes from all Adj-RIB-In" of the established sessions
all_prefixes ==
    UNION {DOMAIN adj_rib_in[k] : k \in {x \in SessionKeys : is_established(x)}}

\* the installed route differs from the selected one in the way the loop tests
best_path_changed(current_best, best_route) == current_best.peer_id # best_route.peer_id

\* one iteration of the loop over all_prefixes: Loc-RIB after it
decide_prefix(loc, prefix) ==
    IF candidates(prefix) = <<>>
    THEN (IF prefix \in DOMAIN loc THEN DictDel(loc, prefix) ELSE loc)
    ELSE LET best_route == select_best(candidates(prefix))
         IN IF prefix \notin DOMAIN loc THEN DictSet(loc, prefix, best_route)
            ELSE IF best_path_changed(loc[prefix], best_route)
                 THEN DictSet(loc, prefix, best_route)
                 ELSE loc

\* the loop over a set of prefixes (the iterations touch distinct keys)
RECURSIVE decide_all(_, _)
decide_all(loc, todo) ==
    IF todo = {} THEN loc
    ELSE LET p == CHOOSE p \in todo : TRUE
         IN decide_all(decide_prefix(loc, p), todo \ {p})

\* the prefixes the loop appends to changed_prefixes
changed_set(loc) ==
    {p \in all_prefixes :
        \/ candidates(p) = <<>> /\ p \in DOMAIN loc
        \/ candidates(p) # <<>> /\ p \notin DOMAIN loc
        \/ /\ candidates(p) # <<>>
           /\ p \in DOMAIN loc
           /\ best_path_changed(loc[p], select_best(candidates(p)))}

\* ------------------------------------------------------------------ RIB actions
\* the UPDATEs each peer sends: a prefix and its attribute list
Announcement(prefix, attrs) == [prefix |-> prefix, attrs |-> attrs]

Announcements(key) ==
    CASE key = EBGP1 ->
           { Announcement(PFX_A, << OriginAttribute(ORIGIN_IGP),
                                    ASPathAttribute(<<Segment(AS_SEQUENCE, <<65000>>)>>),
                                    NextHopAttribute(EBGP1) >>),
             Announcement(PFX_A, << OriginAttribute(ORIGIN_IGP),
                                    ASPathAttribute(<<Segment(AS_SEQUENCE, <<65000, 65009>>)>>),
                                    NextHopAttribute(EBGP1), MedAttribute(5) >>),
             Announcement(PFX_B, << OriginAttribute(ORIGIN_IGP),
                                    ASPathAttribute(<<Segment(AS_SEQUENCE, <<65000>>)>>),
                                    NextHopAttribute(EBGP1) >>) }
      [] key = IBGP1 ->
           { Announcement(PFX_A, << OriginAttribute(ORIGIN_IGP), ASPathAttribute(<<>>),
                                    NextHopAttribute(IBGP1), LocalPrefAttribute(200) >>),
             Announcement(PFX_A, << OriginAttribute(ORIGIN_IGP), ASPathAttribute(<<>>),
                                    NextHopAttribute(IBGP1), LocalPrefAttribute(150) >>),
             Announcement(PFX_A, << OriginAttribute(ORIGIN_IGP), ASPathAttribute(<<>>),
                                    NextHopAttribute(IBGP1), LocalPrefAttribute(50) >>) }
      [] key = IBGP2 ->
           { Announcement(PFX_A, << OriginAttribute(ORIGIN_IGP), ASPathAttribute(<<>>),
                                    NextHopAttribute(IBGP2), LocalPrefAttribute(100) >>),
             Announcement(PFX_A, << OriginAttribute(ORIGIN_INCOMPLETE),
                                    ASPathAttribute(<<Segment(AS_SET, <<65009>>)>>),
                                    NextHopAttribute(IBGP2), LocalPrefAttribute(100) >>) }
      [] OTHER -> {}

\* the peer tables the agent is configured with
PeerTables == {<<EBGP1, IBGP1>>, <<EBGP1, IBGP2>>, <<IBGP1, IBGP2>>}

\* the prefixes the operator originates, and the peers the operator gives a
\* rejecting import policy
Originated == {PFX_B}
PolicyPeers == {EBGP1}

RibInit ==
    /\ sessions \in PeerTables
    /\ fsm = [k \in PeerKeys |-> STATE_IDLE]
    /\ adj_rib_in = [k \in PeerKeys |-> EmptyDict]
    /\ adj_rib_out = [k \in PeerKeys |-> {}]
    /\ loc_rib = EmptyDict
    /\ import_reject = {}
    /\ tasks = {}
    /\ now = 0
    /\ sent = {}
    /\ last = "init"

\* the session's FSM reaches Established; on_established schedules
\* _on_session_established(peer_ip)
SessionEstablished(key) ==
    /\ key \in SessionKeys
    /\ ~is_established(key)
    /\ fsm' = [fsm EXCEPT ![key] = STATE_ESTABLISHED]
    /\ tasks' = tasks \cup {[kind |-> "established", prefixes |-> <<>>, peer_ip |-> key]}
    /\ sent' = {}
    /\ last' = "event"
    /\ UNCHANGED <<sessions, adj_rib_in, adj_rib_out, loc_rib, import_reject, now>>

\* the session leaves Established: its Adj-RIBs are flushed
SessionDown(key) ==
    /\ key \in SessionKeys
    /\ is_established(key)
    /\ fsm' = [fsm EXCEPT ![key] = STATE_IDLE]
    /\ adj_rib_in' = [adj_rib_in EXCEPT ![key] = EmptyDict]
    /\ adj_rib_out' = [adj_rib_out EXCEPT ![key] = {}]
    /\ sent' = {}
    /\ last' = "event"
    /\ UNCHANGED <<sessions, loc_rib, import_reject, tasks, now>>

\* an UPDATE with NLRI arrives on an established session
UpdateMsg(key, prefix, attrs) ==
    /\ key \in SessionKeys
    /\ is_established(key)
    /\ adj_rib_in' = [adj_rib_in EXCEPT ![key] =
                         DictSet(@, prefix, BGPRoute(prefix, attrs, key, key, "peer", now))]
    /\ sent' = {}
    /\ last' = "event"
    /\ UNCHANGED <<sessions, fsm, adj_rib_out, loc_rib, import_reject, tasks, now>>

\* an UPDATE that withdraws a prefix arrives on an established session
WithdrawMsg(key, prefix) ==
    /\ key \in SessionKeys
    /\ is_established(key)
    /\ prefix \in DOMAIN adj_rib_in[key]
    /\ adj_rib_in' = [adj_rib_in EXCEPT ![key] = DictDel(@, prefix)]
    /\ sent' = {}
    /\ last' = "event"
    /\ UNCHANGED <<sessions, fsm, adj_rib_out, loc_rib, import_reject, tasks, now>>

\* remove_peer(peer_ip): the session leaves the table (and is stopped)
RemovePeer(key) ==
    /\ key \in SessionKeys
    /\ sessions' = SelectSeq(sessions, LAMBDA k : k # key)
    /\ fsm' = [fsm EXCEPT ![key] = STATE_IDLE]
    /\ adj_rib_in' = [adj_rib_in EXCEPT ![key] = EmptyDict]
    /\ adj_rib_out' = [adj_rib_out EXCEPT ![key] = {}]
    /\ mesh_sessions' = [a \in {x \in DOMAIN mesh_sessions : mesh_sessions[x] # key}
                             |-> mesh_sessions[a]]
    /\ sent' = {}
    /\ last' = "event"
    /\ UNCHANGED <<loc_rib, import_reject, tasks, now>>

\* set_import_policy(peer_ip, policy) with a policy that rejects every route
SetImportPolicy(key) ==
    /\ key \in SessionKeys
    /\ key \notin import_reject
    /\ import_reject' = import_reject \cup {key}
    /\ sent' = {}
    /\ last' = "event"
    /\ UNCHANGED <<sessions, fsm, adj_rib_in, adj_rib_out, loc_rib, tasks, now>>

\* the route originate_route builds (next_hop, local_pref and origin defaulted)
LocalRoute(prefix) ==
    BGPRoute(prefix,
             << OriginAttribute(ORIGIN_IGP), ASPathAttribute(<<>>),
                NextHopAttribute(router_id), LocalPrefAttribute(DEFAULT_LOCAL_PREF) >>,
             router_id, router_id, "local", now)

\* originate_route(prefix): install in Loc-RIB, schedule _advertise_routes([prefix])
Originate(prefix) ==
    /\ loc_rib' = DictSet(loc_rib, prefix, LocalRoute(prefix))
    /\ tasks' = tasks \cup {[kind |-> "advertise", prefixes |-> <<prefix>>, peer_ip |-> ""]}
    /\ sent' = {}
    /\ last' = "originate"
    /\ UNCHANGED <<sessions, fsm, adj_rib_in, adj_rib_out, import_reject, now>>

\* the effect on the state of what one call of _advertise_routes did
SendUpdates(res) ==
    /\ loc_rib' = res.loc
    /\ sent' = res.updates
    /\ adj_rib_out' = adj_rib_out_after(adj_rib_out, res.updates)

\* one call of _advertise_routes
Advertise(changed_prefixes, loc) ==
    SendUpdates(_advertise_routes(EstablishedSessions, changed_prefixes, loc))

\* a scheduled _advertise_routes([prefix]) runs
RunAdvertiseTask(t) ==
    /\ t \in tasks
    /\ t.kind = "advertise"
    /\ tasks' = tasks \ {t}
    /\ Advertise(t.prefixes, loc_rib)
    /\ last' = "advertise"
    /\ UNCHANGED <<sessions, fsm, adj_rib_in, import_reject, now>>

\* the callback that hands _advertise_routes the first Loc-RIB prefix only
OnSessionEstablished_first_only(t) ==
    /\ t \in tasks
    /\ t.kind = "established"
    /\ tasks' = tasks \ {t}
    /\ \E all_routes \in Orders(DOMAIN loc_rib) :
           Advertise(IF all_routes = <<>> THEN <<>> ELSE <<all_routes[1]>>, loc_rib)
    /\ last' = "dump"
    /\ UNCHANGED <<sessions, fsm, adj_rib_in, import_reject, now>>

\* a scheduled _on_session_established runs: all Loc-RIB prefixes are
\* handed to _advertise_routes
OnSessionEstablished(t) ==
    /\ t \in tasks
    /\ t.kind = "established"
    /\ tasks' = tasks \ {t}
    /\ \E all_routes \in Orders(DOMAIN loc_rib) : Advertise(all_routes, loc_rib)
    /\ last' = "dump"
    /\ UNCHANGED <<sessions, fsm, adj_rib_in, import_reject, now>>

\* one pass of _decision_process_loop: _run_decision_process
RunDecisionProcess ==
    /\ IF all_prefixes = {}
       THEN /\ sent' = {}
            /\ UNCHANGED <<loc_rib, adj_rib_out>>
       ELSE \E changed_prefixes \in Orders(changed_set(loc_rib)) :
                Advertise(changed_prefixes, decide_all(loc_rib, all_prefixes))
    /\ last' = "decision"
    /\ UNCHANGED <<sessions, fsm, adj_rib_in, import_reject, tasks, now>>

\* ------------------------------------------------------------------ connections
\* the inbound connections of a run are numbered 1..MaxInbound
MaxInbound == 2

Conns == 1..MaxInbound

\* session.writer is None
NoConn == 0

\* the connection a session opened itself
OutConn == MaxInbound + 1

\* the source addresses inbound connections come from
SourceIps == {EBGP1, IBGP1, IBGP2, "9.9.9.9"}

\* my_as of the OPEN a connecting mesh peer sends; 0 stands for an OPEN that
\* _read_open_message gives up on (wrong marker or type, timeout, short read)
OpenAs == {0, 65002, 65003}

\* the BGP Identifier each peer carries in its own OPEN
PeerBgpId(key) ==
    CASE key = EBGP1 -> "1.1.1.1"
      [] key = IBGP1 -> "9.9.9.9"
      [] key = IBGP2 -> "10.0.0.3"
      [] key = MESH1 -> "1.1.1.1"

\* the OPEN message read from inbound connection c
BGPOpen(my_as, c) == [my_as |-> my_as, from |-> c]

\* session._pending_open is None
NoOpen == BGPOpen(0, NoConn)

\* an inbound connection nobody has made yet; bgp_open is the pre-read OPEN
\* the session took as BGPOpen when it accepted the connection
NewConn ==
    [st |-> "new", pc |-> "new", sess |-> "", verdict |-> "", state |-> "",
     accepted_in |-> "", bgp_open |-> NoOpen]

\* the peer tables the connection handling is exercised with
ConnTables == {<<EBGP1>>, <<IBGP1>>, <<IBGP2>>, <<MESH1>>, <<EBGP1, MESH1>>}

\* add_peer over a table: the mesh index it builds
MeshIndex(table) ==
    LET mesh == {k \in Range(table) : SessionConfig(k).accept_any_source}
    IN [a \in {SessionConfig(k).peer_as : k \in mesh}
           |-> CHOOSE k \in mesh : SessionConfig(k).peer_as = a]

\* no connection exists and no handler runs
ConnQuiet ==
    /\ writer = [k \in PeerKeys |-> NoConn]
    /\ outbound = [k \in PeerKeys |-> "none"]
    /\ conn = [c \in Conns |-> NewConn]
    /\ pending_open = [k \in PeerKeys |-> NoOpen]

ConnInit ==
    /\ sessions \in ConnTables
    /\ mesh_sessions = MeshIndex(sessions)
    /\ fsm = [k \in PeerKeys |-> STATE_IDLE]
    /\ adj_rib_in = [k \in PeerKeys |-> EmptyDict]
    /\ adj_rib_out = [k \in PeerKeys |-> {}]
    /\ loc_rib = EmptyDict
    /\ import_reject = {}
    /\ tasks = {}
    /\ now = 0
    /\ sent = {}
    /\ last = "init"
    /\ ConnQuiet

\* Idle, ManualStart: Connect, and the TCP connection is initiated unless passive
ManualStart(key) ==
    /\ key \in SessionKeys
    /\ fsm[key] = STATE_IDLE
    /\ fsm' = [fsm EXCEPT ![key] = STATE_CONNECT]
    /\ outbound' = [outbound EXCEPT ![key] =
                       IF SessionConfig(key).passive THEN "none" ELSE "connecting"]
    /\ UNCHANGED <<writer, conn, pending_open, tasks>>

\* Connect or Active, TcpConnectionConfirmed on the session's own connection:
\* the session holds it, sends OPEN, OpenSent
TcpConnectionConfirmed(key) ==
    /\ key \in SessionKeys
    /\ fsm[key] \in {STATE_CONNECT, STATE_ACTIVE}
    /\ outbound[key] = "connecting"
    /\ outbound' = [outbound EXCEPT ![key] = "open"]
    /\ writer' = [writer EXCEPT ![key] = OutConn]
    /\ fsm' = [fsm EXCEPT ![key] = STATE_OPENSENT]
    /\ UNCHANGED <<conn, pending_open, tasks>>

\* Connect, TcpConnectionFails: Active, a retry is scheduled
TcpConnectionFails(key) ==
    /\ key \in SessionKeys
    /\ fsm[key] = STATE_CONNECT
    /\ outbound[key] = "connecting"
    /\ outbound' = [outbound EXCEPT ![key] = "none"]
    /\ fsm' = [fsm EXCEPT ![key] = STATE_ACTIVE]
    /\ UNCHANGED <<writer, conn, pending_open, tasks>>

\* ConnectRetryTimerExpires: the TCP connection is initiated again
ConnectRetryTimerExpires(key) ==
    /\ key \in SessionKeys
    /\ fsm[key] \in {STATE_CONNECT, STATE_ACTIVE}
    /\ ~SessionConfig(key).passive
    /\ outbound[key] = "none"
    /\ outbound' = [outbound EXCEPT ![key] = "connecting"]
    /\ UNCHANGED <<fsm, writer, conn, pending_open, tasks>>

\* OpenSent, BGPOpen read from the held connection: OpenConfirm
BGPOpenMsg(key) ==
    /\ key \in SessionKeys
    /\ fsm[key] = STATE_OPENSENT
    /\ writer[key] # NoConn
    /\ fsm' = [fsm EXCEPT ![key] = STATE_OPENCONFIRM]
    /\ UNCHANGED <<writer, outbound, conn, pending_open, tasks>>

\* OpenConfirm, KeepAliveMsg: Established, and on_established fires
KeepAliveMsg(key) ==
    /\ key \in SessionKeys
    /\ fsm[key] = STATE_OPENCONFIRM
    /\ writer[key] # NoConn
    /\ fsm' = [fsm EXCEPT ![key] = STATE_ESTABLISHED]
    /\ tasks' = tasks \cup {[kind |-> "established", prefixes |-> <<>>, peer_ip |-> key]}
    /\ UNCHANGED <<writer, outbound, conn, pending_open>>

\* ManualStop, NotifMsg or HoldTimerExpires: the held socket is closed, the
\* pending attempt dropped, Idle
TearDown(key) ==
    /\ key \in SessionKeys
    /\ fsm[key] # STATE_IDLE
    /\ fsm' = [fsm EXCEPT ![key] = STATE_IDLE]
    /\ writer' = [writer EXCEPT ![key] = NoConn]
    /\ outbound' = [outbound EXCEPT ![key] =
                       IF @ = "connecting" \/ writer[key] = OutConn THEN "none" ELSE @]
    /\ conn' = [c \in Conns |-> IF c = writer[key] THEN [conn[c] EXCEPT !.st = "closed"]
                                ELSE conn[c]]
    /\ UNCHANGED <<pending_open, tasks>>

\* accept_connection that leaves the session's own connection attempt alone
accept_connection_keeps_dialing(c, key, held, pend, state) ==
    /\ writer' = [writer EXCEPT ![key] = c]
    /\ conn' = [x \in Conns |->
                   IF x = c
                   THEN [st |-> "open", pc |-> "done", sess |-> key, verdict |-> "accept",
                         state |-> state, accepted_in |-> fsm[key],
                         bgp_open |-> pend[key]]
                   ELSE IF x = held THEN [conn[x] EXCEPT !.st = "closed"]
                   ELSE conn[x]]
    /\ outbound' = outbound
    /\ fsm' = [fsm EXCEPT ![key] =
                  IF pend[key] # NoOpen THEN STATE_OPENCONFIRM
                  ELSE IF @ = STATE_ESTABLISHED THEN @
                  ELSE STATE_OPENSENT]
    /\ pending_open' = [pend EXCEPT ![key] = NoOpen]

\* BGPSession.accept_connection(reader, writer, is_collision) for connection c,
\* when the session holds "held" and the pending OPENs are "pend": a held
\* connection is closed and a pending outbound attempt cancelled, the session
\* holds c, sends OPEN, and takes the pre-read OPEN as BGPOpen
accept_connection(c, key, held, pend, state) ==
    /\ writer' = [writer EXCEPT ![key] = c]
    /\ conn' = [x \in Conns |->
                   IF x = c
                   THEN [st |-> "open", pc |-> "done", sess |-> key, verdict |-> "accept",
                         state |-> state, accepted_in |-> fsm[key],
                         bgp_open |-> pend[key]]
                   ELSE IF x = held THEN [conn[x] EXCEPT !.st = "closed"]
                   ELSE conn[x]]
    /\ outbound' = [outbound EXCEPT ![key] =
                       IF @ = "connecting" \/ held = OutConn THEN "none" ELSE @]
    /\ fsm' = [fsm EXCEPT ![key] =
                  IF pend[key] # NoOpen THEN STATE_OPENCONFIRM
                  ELSE IF @ = STATE_ESTABLISHED THEN @
                  ELSE STATE_OPENSENT]
    /\ pending_open' = [pend EXCEPT ![key] = NoOpen]

\* writer.close(); await writer.wait_closed(); return
reject(c, key, pend, state) ==
    /\ conn' = [conn EXCEPT ![c] = [st |-> "closed", pc |-> "done", sess |-> key,
                                    verdict |-> "reject", state |-> state,
                                    accepted_in |-> "", bgp_open |-> NoOpen]]
    /\ pending_open' = pend
    /\ UNCHANGED <<writer, outbound, fsm>>

\* the handling that leaves _pending_open set when it rejects a mesh connection
collision_handling_keeps_pending_open(c, key, mesh_identified, pend) ==
    LET config == SessionConfig(key)
        current_state == fsm[key]
        our_id == router_id
        peer_id == IF config.peer_router_id # "" THEN config.peer_router_id ELSE key
    IN IF ~config.passive /\ ~mesh_identified
       THEN IF current_state = STATE_ESTABLISHED
            THEN reject(c, key, pend, current_state)
            ELSE IF current_state \in {STATE_OPENSENT, STATE_OPENCONFIRM}
            THEN IF IpLess(peer_id, our_id)
                 THEN reject(c, key, pend, current_state)
                 ELSE /\ conn' = [conn EXCEPT ![c] =
                                     [st |-> "open", pc |-> "cancel_wait", sess |-> key,
                                      verdict |-> "", state |-> current_state,
                                      accepted_in |-> "", bgp_open |-> NoOpen]]
                      /\ pending_open' = pend
                      /\ UNCHANGED <<writer, outbound, fsm>>
            ELSE accept_connection(c, key, writer[key], pend, current_state)
       ELSE IF mesh_identified /\ current_state = STATE_ESTABLISHED
       THEN reject(c, key, pend, current_state)
       ELSE accept_connection(c, key, writer[key], pend, current_state)

\* the collision handling and the accept, for a handler that has its session
collision_handling(c, key, mesh_identified, pend) ==
    LET config == SessionConfig(key)
        current_state == fsm[key]
        our_id == router_id
        peer_id == IF config.peer_router_id # "" THEN config.peer_router_id ELSE key
    IN IF ~config.passive /\ ~mesh_identified
       THEN IF current_state = STATE_ESTABLISHED
            THEN reject(c, key, pend, current_state)
            ELSE IF current_state \in {STATE_OPENSENT, STATE_OPENCONFIRM}
            THEN IF IpLess(peer_id, our_id)
                 THEN reject(c, key, pend, current_state)
                 ELSE /\ conn' = [conn EXCEPT ![c] =
                                     [st |-> "open", pc |-> "cancel_wait", sess |-> key,
                                      verdict |-> "", state |-> current_state,
                                      accepted_in |-> "", bgp_open |-> NoOpen]]
                      /\ pending_open' = pend
                      /\ UNCHANGED <<writer, outbound, fsm>>
            ELSE accept_connection(c, key, writer[key], pend, current_state)
       ELSE IF mesh_identified /\ current_state = STATE_ESTABLISHED
       THEN reject(c, key, [pend EXCEPT ![key] = NoOpen], current_state)
       ELSE accept_connection(c, key, writer[key], pend, current_state)

\* _handle_incoming_connection up to its first await, for a connection from src
Incoming(c, src) ==
    /\ conn[c].pc = "new"
    /\ IF src \in SessionKeys
       THEN collision_handling(c, src, FALSE, pending_open)
       ELSE IF DOMAIN mesh_sessions # {}
       THEN /\ conn' = [conn EXCEPT ![c] = [NewConn EXCEPT !.st = "open",
                                                          !.pc = "read_open"]]
            /\ UNCHANGED <<writer, outbound, fsm, pending_open>>
       ELSE reject(c, "", pending_open, "")
    /\ UNCHANGED tasks

\* the mesh identification that does not keep the pre-read OPEN
ReadOpen_without_pending_open(c, my_as) ==
    /\ conn[c].pc = "read_open"
    /\ IF my_as = 0 \/ my_as \notin DOMAIN mesh_sessions
       THEN reject(c, "", pending_open, "")
       ELSE collision_handling(c, mesh_sessions[my_as], TRUE, pending_open)
    /\ UNCHANGED tasks

\* _read_open_message returned: the mesh identification and what follows it
ReadOpen(c, my_as) ==
    /\ conn[c].pc = "read_open"
    /\ IF my_as = 0 \/ my_as \notin DOMAIN mesh_sessions
       THEN reject(c, "", pending_open, "")
       ELSE collision_handling(c, mesh_sessions[my_as], TRUE,
                               [pending_open EXCEPT ![mesh_sessions[my_as]] = BGPOpen(my_as, c)])
    /\ UNCHANGED tasks

\* the cancelled reader task has finished: the held connection is closed and
\* the handler waits for wait_closed, or goes on when the session holds none
ReaderCancelled(c) ==
    /\ conn[c].pc = "cancel_wait"
    /\ LET key == conn[c].sess
           held == writer[key]
       IN IF held # NoConn
          THEN /\ conn' = [x \in Conns |->
                              IF x = c THEN [conn[c] EXCEPT !.pc = "close_wait"]
                              ELSE IF x = held THEN [conn[x] EXCEPT !.st = "closed"]
                              ELSE conn[x]]
               /\ outbound' = [outbound EXCEPT ![key] = IF held = OutConn THEN "none" ELSE @]
               /\ UNCHANGED <<writer, fsm, pending_open>>
          ELSE accept_connection(c, key, NoConn, pending_open, conn[c].state)
    /\ UNCHANGED tasks

\* wait_closed returned: session.reader = None, session.writer = None, accept
WriterClosed(c) ==
    /\ conn[c].pc = "close_wait"
    /\ accept_connection(c, conn[c].sess, NoConn, pending_open, conn[c].state)
    /\ UNCHANGED tasks

\* ------------------------------------------------------------------ attribute preparation
\* the attribute lists a route handed to the outbound pipeline may carry:
\* each attribute present or absent, the AS_PATH empty, a sequence, a set or
\* a sequence followed by a set, in the usual order or reversed
Reverse(q) == [i \in 1..Len(q) |-> q[Len(q) + 1 - i]]

OrderedAttributes ==
    { o \o a \o n \o l :
        o \in {<<>>, <<OriginAttribute(ORIGIN_EGP)>>},
        a \in {<<>>,
               <<ASPathAttribute(<<>>)>>,
               <<ASPathAttribute(<<Segment(AS_SEQUENCE, <<65000>>)>>)>>,
               <<ASPathAttribute(<<Segment(AS_SET, <<65009>>)>>)>>,
               <<ASPathAttribute(<<Segment(AS_SEQUENCE, <<65000>>),
                                   Segment(AS_SET, <<65009>>)>>)>>},
        n \in {<<>>, <<NextHopAttribute(EBGP1)>>},
        l \in {<<>>, <<LocalPrefAttribute(200)>>} }

PrepAttributes == OrderedAttributes \cup {Reverse(q) : q \in OrderedAttributes}

\* the sessions the attributes are prepared for
PrepTargets == {EBGP1, IBGP1, MESH1}

\* no call is under way
PrepIdle ==
    [key |-> "", attributes |-> <<>>, modified |-> <<>>, stored |-> <<>>, done |-> FALSE]

PrepInit ==
    /\ sessions = <<>>
    /\ mesh_sessions = EmptyDict
    /\ fsm = [k \in PeerKeys |-> STATE_IDLE]
    /\ adj_rib_in = [k \in PeerKeys |-> EmptyDict]
    /\ adj_rib_out = [k \in PeerKeys |-> {}]
    /\ loc_rib = EmptyDict
    /\ import_reject = {}
    /\ tasks = {}
    /\ now = 0
    /\ sent = {}
    /\ last = "init"
    /\ ConnQuiet
    /\ injected = EmptyDict
    /\ ExtraIdle
    /\ \E key \in PrepTargets, attributes \in PrepAttributes :
           prep = [PrepIdle EXCEPT !.key = key, !.attributes = attributes,
                                   !.stored = attributes]

\* modified_attrs = self._prepare_attributes_for_advertisement(route.path_attributes, session)
PrepareCall ==
    /\ prep.key # ""
    /\ ~prep.done
    /\ LET res == _prepare_attributes_for_advertisement(prep.attributes, prep.key)
       IN prep' = [prep EXCEPT !.modified = res.modified, !.stored = res.attributes,
                               !.done = TRUE]
    /\ UNCHANGED <<sessions, fsm, adj_rib_in, adj_rib_out, loc_rib, import_reject, tasks,
                   now, sent, last, mesh_sessions, writer, outbound, conn, pending_open,
                   injected, extra>>

SpecPrepare == PrepInit /\ [][PrepareCall]_vars

\* ------------------------------------------------------------------ comparison
\* the candidates compare is called with: LOCAL_PREF absent, the default or
\* higher; an AS_PATH of one or two ASes from an external neighbour, or of
\* the local AS; ORIGIN IGP or EGP; MED absent, 0 or 50; two next hops, two
\* ages and two advertising peers
NH1 == "172.16.0.1"
NH2 == "10.0.0.2"

CmpAttributes ==
    { l \o a \o o \o m \o n :
        l \in {<<>>, <<LocalPrefAttribute(100)>>, <<LocalPrefAttribute(200)>>},
        a \in {<<ASPathAttribute(<<Segment(AS_SEQUENCE, <<65000>>)>>)>>,
               <<ASPathAttribute(<<Segment(AS_SEQUENCE, <<65000, 65009>>)>>)>>,
               <<ASPathAttribute(<<Segment(AS_SEQUENCE, <<65001>>)>>)>>},
        o \in {<<OriginAttribute(ORIGIN_IGP)>>, <<OriginAttribute(ORIGIN_EGP)>>},
        m \in {<<>>, <<MedAttribute(0)>>, <<MedAttribute(50)>>},
        n \in {<<NextHopAttribute(NH1)>>, <<NextHopAttribute(NH2)>>} }

CmpRoutes ==
    { BGPRoute(PFX_A, attrs, pid, pip, "peer", ts) :
        attrs \in CmpAttributes, pid \in {"1.1.1.1", "9.9.9.9"},
        pip \in {EBGP1, IBGP1}, ts \in {1, 2} }

\* the routes the other candidate is compared against
CmpReference ==
    { BGPRoute(PFX_A, <<LocalPrefAttribute(100),
                        ASPathAttribute(<<Segment(AS_SEQUENCE, <<65000>>)>>),
                        OriginAttribute(ORIGIN_IGP), MedAttribute(0),
                        NextHopAttribute(NH1)>>, "1.1.1.1", EBGP1, "peer", 1),
      BGPRoute(PFX_A, <<LocalPrefAttribute(200),
                        ASPathAttribute(<<Segment(AS_SEQUENCE, <<65000, 65009>>)>>),
                        OriginAttribute(ORIGIN_EGP), MedAttribute(50),
                        NextHopAttribute(NH2)>>, "9.9.9.9", IBGP1, "peer", 2),
      BGPRoute(PFX_A, <<ASPathAttribute(<<Segment(AS_SEQUENCE, <<65001>>)>>),
                        OriginAttribute(ORIGIN_IGP),
                        NextHopAttribute(NH2)>>, "9.9.9.9", EBGP1, "peer", 1) }

\* the callbacks a selector is constructed with: none, one that knows both
\* next hops, one for which NH2 is unreachable
CostLookups ==
    { EmptyDict,
      [nh \in {NH1, NH2} |-> IF nh = NH1 THEN 10 ELSE 20],
      [nh \in {NH1, NH2} |-> IF nh = NH1 THEN 10 ELSE NoCost] }

InitCompare ==
    /\ sessions = <<>>
    /\ mesh_sessions = EmptyDict
    /\ fsm = [k \in PeerKeys |-> STATE_IDLE]
    /\ adj_rib_in = [k \in PeerKeys |-> EmptyDict]
    /\ adj_rib_out = [k \in PeerKeys |-> {}]
    /\ loc_rib = EmptyDict
    /\ import_reject = {}
    /\ tasks = {}
    /\ now = 0
    /\ sent = {}
    /\ last = "init"
    /\ ConnQuiet
    /\ injected = EmptyDict
    /\ prep = PrepIdle
    /\ configs = EmptyDict
    /\ raised = NoRaise
    /\ api = NoCall
    /\ announced = EmptyDict
    /\ agent = AgentNew
    /\ speaker = SpeakerNew
    /\ MoreIdle
    /\ igp_cost_lookup \in CostLookups
    /\ \E route_a \in CmpRoutes, route_b \in CmpReference :
           cmp \in { [CmpIdle EXCEPT !.route_a = route_a, !.route_b = route_b],
                     [CmpIdle EXCEPT !.route_a = route_b, !.route_b = route_a] }

\* result = self.compare(route_a, route_b)
CompareCall ==
    /\ cmp.route_a.prefix # ""
    /\ ~cmp.done
    /\ cmp' = [cmp EXCEPT !.result = compare(cmp.route_a, cmp.route_b), !.done = TRUE]
    /\ UNCHANGED <<sessions, fsm, adj_rib_in, adj_rib_out, loc_rib, import_reject, tasks,
                   now, sent, last, connvars, prep, injected, configs, igp_cost_lookup,
                   raised, api, announced, agent, speaker, more>>

SpecCompare == InitCompare /\ [][CompareCall]_vars

\* the candidates of the tie-breaking steps: an AS_PATH that is missing, empty,
\* from an external neighbour or of the local AS; MED absent, 0 or 50; a
\* NEXT_HOP that is missing or one of two; learned over the eBGP or the iBGP
\* session
EdgeAttributes ==
    { a \o o \o m \o n :
        a \in {<<>>,
               <<ASPathAttribute(<<>>)>>,
               <<ASPathAttribute(<<Segment(AS_SEQUENCE, <<65000>>)>>)>>,
               <<ASPathAttribute(<<Segment(AS_SEQUENCE, <<65001>>)>>)>>},
        o \in {<<OriginAttribute(ORIGIN_IGP)>>},
        m \in {<<>>, <<MedAttribute(0)>>, <<MedAttribute(50)>>},
        n \in {<<>>, <<NextHopAttribute(NH1)>>, <<NextHopAttribute(NH2)>>} }

EdgeRoutes ==
    { BGPRoute(PFX_A, attrs, "1.1.1.1", pip, "peer", 1) :
        attrs \in EdgeAttributes, pip \in {EBGP1, IBGP1} }

\* the callbacks: none, one that knows both next hops, one for which NH2 is
\* unreachable, one for which both are, and one that raises for NH2
EdgeLookups ==
    CostLookups \cup { [nh \in {NH1, NH2} |-> NoCost], [nh \in {NH1} |-> 10] }

InitTieBreak ==
    /\ sessions = <<>>
    /\ mesh_sessions = EmptyDict
    /\ fsm = [k \in PeerKeys |-> STATE_IDLE]
    /\ adj_rib_in = [k \in PeerKeys |-> EmptyDict]
    /\ adj_rib_out = [k \in PeerKeys |-> {}]
    /\ loc_rib = EmptyDict
    /\ import_reject = {}
    /\ tasks = {}
    /\ now = 0
    /\ sent = {}
    /\ last = "init"
    /\ ConnQuiet
    /\ injected = EmptyDict
    /\ prep = PrepIdle
    /\ configs = EmptyDict
    /\ raised = NoRaise
    /\ api = NoCall
    /\ announced = EmptyDict
    /\ agent = AgentNew
    /\ speaker = SpeakerNew
    /\ MoreIdle
    /\ igp_cost_lookup \in EdgeLookups
    /\ \E route_a \in EdgeRoutes, route_b \in EdgeRoutes :
           cmp = [CmpIdle EXCEPT !.route_a = route_a, !.route_b = route_b]

SpecTieBreak == InitTieBreak /\ [][CompareCall]_vars

\* ------------------------------------------------------------------ selection
\* the candidates select_best is called with: one prefix announced by
\* neighbours in AS 65000 and AS 65002, with MED 0 or 50, learned at three
\* different times from three peers
SelRoutes ==
    { BGPRoute(PFX_A, << OriginAttribute(ORIGIN_IGP),
                         ASPathAttribute(<<Segment(AS_SEQUENCE, <<asn>>)>>),
                         NextHopAttribute(NH1), MedAttribute(med) >>,
               pip, pip, "peer", ts) :
        asn \in {65000, 65002}, med \in {0, 50}, ts \in 1..3, pip \in {EBGP1, IBGP1, IBGP2} }

MaxCandidates == 3

\* the candidate lists: at most one route of each peer, in every order
SelLists ==
    UNION { {q \in [1..n -> SelRoutes] :
                \A i, j \in 1..n : i # j => q[i].peer_ip # q[j].peer_ip} :
            n \in 1..MaxCandidates }

InitSelect ==
    /\ sessions = <<>>
    /\ mesh_sessions = EmptyDict
    /\ fsm = [k \in PeerKeys |-> STATE_IDLE]
    /\ adj_rib_in = [k \in PeerKeys |-> EmptyDict]
    /\ adj_rib_out = [k \in PeerKeys |-> {}]
    /\ loc_rib = EmptyDict
    /\ import_reject = {}
    /\ tasks = {}
    /\ now = 0
    /\ sent = {}
    /\ last = "init"
    /\ ConnQuiet
    /\ injected = EmptyDict
    /\ prep = PrepIdle
    /\ configs = EmptyDict
    /\ cmp = CmpIdle
    /\ igp_cost_lookup = EmptyDict
    /\ raised = NoRaise
    /\ api = NoCall
    /\ announced = EmptyDict
    /\ agent = AgentNew
    /\ speaker = SpeakerNew
    /\ prev_states = EmptyDict
    /\ manager = ManagerNew
    /\ tunnel = TunnelNew
    /\ \E routes \in SelLists : sel = [SelIdle EXCEPT !.candidates = routes]

\* best = self.select_best(routes)
SelectCall ==
    /\ sel.candidates # <<>>
    /\ ~sel.done
    /\ sel' = [sel EXCEPT !.best = select_best(sel.candidates), !.done = TRUE]
    /\ UNCHANGED <<sessions, fsm, adj_rib_in, adj_rib_out, loc_rib, import_reject, tasks,
                   now, sent, last, connvars, prep, injected, configs, cmp,
                   igp_cost_lookup, raised, api, announced, agent, speaker, prev_states,
                   manager, tunnel>>

SpecSelect == InitSelect /\ [][SelectCall]_vars

\* ------------------------------------------------------------------ control daemon
\* the networks the API is called with
Networks == {"10.99.99.0/24", "10.99.99.7/24", "10.0.0.0/8"}

\* str(net.network_address) + "/" + str(net.prefixlen) of
\* IPv4Network(network, strict=False): the host bits are cleared
NetworkKey(network) ==
    CASE network = "10.99.99.7/24" -> "10.99.99.0/24"
      [] OTHER -> network

\* the UPDATE send_bgp_update writes to the session's writer
send_bgp_update(key, nlri_key, withdrawn) ==
    IF withdrawn THEN BGPUpdate(key, <<nlri_key>>, <<>>, <<>>)
    ELSE BGPUpdate(key, <<>>,
                   << OriginAttribute(ORIGIN_IGP),
                      ASPathAttribute(<<Segment(AS_SEQUENCE, <<LOCAL_AS>>)>>),
                      NextHopAttribute("172.16.0.2") >>,
                   <<nlri_key>>)

\* what the daemon's UPDATEs announced to a session since it was established
Announced(key) == IF key \in DOMAIN announced THEN announced[key] ELSE {}

\* advertise_route(network); ok is the set of established sessions whose
\* writer takes the message
advertise_route(network, ok) ==
    /\ ok \subseteq {k \in SessionKeys : is_established(k)}
    /\ injected' = DictSet(injected, NetworkKey(network), "172.16.0.2")
    /\ sent' = {send_bgp_update(k, NetworkKey(network), FALSE) : k \in ok}
    /\ last' = IF ok # {} THEN "advertise_route:True" ELSE "advertise_route:False"
    /\ api' = [op |-> "advertise_route", key |-> NetworkKey(network), result |-> ok # {}]
    /\ announced' = [k \in DOMAIN announced \cup ok |->
                         IF k \in ok THEN Announced(k) \cup {NetworkKey(network)}
                         ELSE announced[k]]
    /\ UNCHANGED <<sessions, fsm, adj_rib_in, adj_rib_out, loc_rib, import_reject, tasks,
                   now>>

\* withdraw_route that sends the prefix as NLRI of an announcement
withdraw_route_announcing(network, ok) ==
    /\ ok \subseteq {k \in SessionKeys : is_established(k)}
    /\ injected' = [k \in DOMAIN injected \ {NetworkKey(network)} |-> injected[k]]
    /\ sent' = {send_bgp_update(k, NetworkKey(network), FALSE) : k \in ok}
    /\ last' = IF ok # {} THEN "withdraw_route:True" ELSE "withdraw_route:False"
    /\ api' = [op |-> "withdraw_route", key |-> NetworkKey(network), result |-> ok # {}]
    /\ UNCHANGED <<sessions, fsm, adj_rib_in, adj_rib_out, loc_rib, import_reject, tasks,
                   now, announced>>

\* withdraw_route(network)
withdraw_route(network, ok) ==
    /\ ok \subseteq {k \in SessionKeys : is_established(k)}
    /\ injected' = [k \in DOMAIN injected \ {NetworkKey(network)} |-> injected[k]]
    /\ sent' = {send_bgp_update(k, NetworkKey(network), TRUE) : k \in ok}
    /\ last' = IF ok # {} THEN "withdraw_route:True" ELSE "withdraw_route:False"
    /\ api' = [op |-> "withdraw_route", key |-> NetworkKey(network), result |-> ok # {}]
    /\ UNCHANGED <<sessions, fsm, adj_rib_in, adj_rib_out, loc_rib, import_reject, tasks,
                   now, announced>>

\* ------------------------------------------------------------------ specifications
\* the agent's RIBs and outbound pipeline
Init ==
    /\ RibInit
    /\ mesh_sessions = EmptyDict
    /\ ConnQuiet
    /\ prep = PrepIdle
    /\ injected = EmptyDict
    /\ ExtraIdle

Next ==
    \/ /\ \E key \in PeerKeys : SessionEstablished(key)
       /\ UNCHANGED <<connvars, prep, injected, extra>>
    \/ /\ \E key \in PeerKeys : SessionDown(key)
       /\ UNCHANGED <<connvars, prep, injected, extra>>
    \/ /\ \E key \in PeerKeys : \E a \in Announcements(key) : UpdateMsg(key, a.prefix, a.attrs)
       /\ UNCHANGED <<connvars, prep, injected, extra>>
    \/ /\ \E key \in PeerKeys, prefix \in Prefixes : WithdrawMsg(key, prefix)
       /\ UNCHANGED <<connvars, prep, injected, extra>>
    \/ /\ \E key \in PeerKeys : RemovePeer(key)
       /\ UNCHANGED <<writer, outbound, conn, pending_open, prep, injected, extra>>
    \/ /\ \E key \in PolicyPeers : SetImportPolicy(key)
       /\ UNCHANGED <<connvars, prep, injected, extra>>
    \/ /\ \E prefix \in Originated : Originate(prefix)
       /\ UNCHANGED <<connvars, prep, injected, extra>>
    \/ /\ \E t \in tasks : RunAdvertiseTask(t)
       /\ UNCHANGED <<connvars, prep, injected, extra>>
    \/ /\ \E t \in tasks : OnSessionEstablished(t)
       /\ UNCHANGED <<connvars, prep, injected, extra>>
    \/ /\ RunDecisionProcess
       /\ UNCHANGED <<connvars, prep, injected, extra>>

Spec == Init /\ [][Next]_vars

\* ------------------------------------------------------------------ a send that raises
\* the UPDATEs of the sessions the loop does not reach once
\* "await session._send_message(update)" has raised
raise_at(one, targets, changed_prefixes) ==
    [updates |-> {}, loc |-> one.loc, raised |-> TRUE,
     skipped |-> _advertise_routes(targets, changed_prefixes, one.loc).updates]

raising_join(updates, rest) ==
    [updates |-> updates \cup rest.updates, loc |-> rest.loc, raised |-> rest.raised,
     skipped |-> rest.skipped]

\* _advertise_routes(changed_prefixes) when the send to the session failing
\* raises: nothing catches the exception inside the loop, so the call ends
\* there
RECURSIVE advertise_raising(_, _, _, _)
raising_next(key, one, targets, changed_prefixes, failing) ==
    IF key = failing /\ one.updates # {}
    THEN raise_at(one, targets, changed_prefixes)
    ELSE raising_join(one.updates,
                      advertise_raising(targets, changed_prefixes, one.loc, failing))

advertise_raising(targets, changed_prefixes, loc, failing) ==
    IF targets = <<>> THEN [updates |-> {}, loc |-> loc, raised |-> FALSE, skipped |-> {}]
    ELSE raising_next(Head(targets), advertise_to(Head(targets), changed_prefixes, loc),
                      Tail(targets), changed_prefixes, failing)

\* the effect on the state of a call of _advertise_routes that a send raised in
SendRaising(res, failing) ==
    /\ res.raised
    /\ loc_rib' = res.loc
    /\ sent' = res.updates
    /\ adj_rib_out' = adj_rib_out_after(adj_rib_out, res.updates)
    /\ raised' = [key |-> failing, skipped |-> res.skipped]

\* one pass of _decision_process_loop in which the send to one session
\* raises: the exception leaves _advertise_routes and _run_decision_process
\* and is logged by the loop
RunDecisionProcessRaising(failing) ==
    /\ raised = NoRaise
    /\ all_prefixes # {}
    /\ \E changed_prefixes \in Orders(changed_set(loc_rib)) :
           SendRaising(advertise_raising(EstablishedSessions, changed_prefixes,
                                         decide_all(loc_rib, all_prefixes), failing),
                       failing)
    /\ last' = "decision raised"
    /\ UNCHANGED <<sessions, fsm, adj_rib_in, import_reject, tasks, now>>

\* the peers that announce routes while a send may raise
Announcers == {EBGP1}

InitSendFail ==
    /\ sessions = <<EBGP1, IBGP1, IBGP2>>
    /\ fsm = [k \in PeerKeys |-> STATE_IDLE]
    /\ adj_rib_in = [k \in PeerKeys |-> EmptyDict]
    /\ adj_rib_out = [k \in PeerKeys |-> {}]
    /\ loc_rib = EmptyDict
    /\ import_reject = {}
    /\ tasks = {}
    /\ now = 0
    /\ sent = {}
    /\ last = "init"
    /\ mesh_sessions = EmptyDict
    /\ ConnQuiet
    /\ prep = PrepIdle
    /\ injected = EmptyDict
    /\ ExtraIdle

\* "while self.running: ... await self._run_decision_process()"
DecisionCycle ==
    /\ RunDecisionProcess
    /\ UNCHANGED <<connvars, prep, injected, extra>>

NextSendFail ==
    \/ /\ \E key \in PeerKeys : SessionEstablished(key)
       /\ UNCHANGED <<connvars, prep, injected, extra>>
    \/ /\ \E key \in Announcers : \E a \in Announcements(key) : UpdateMsg(key, a.prefix, a.attrs)
       /\ UNCHANGED <<connvars, prep, injected, extra>>
    \/ /\ \E t \in tasks : OnSessionEstablished(t)
       /\ UNCHANGED <<connvars, prep, injected, extra>>
    \/ DecisionCycle
    \/ /\ \E failing \in PeerKeys : RunDecisionProcessRaising(failing)
       /\ UNCHANGED <<connvars, prep, injected, configs, cmp, igp_cost_lookup, api,
                      announced, agent, speaker, more>>

SpecSendFail == InitSendFail /\ [][NextSendFail]_vars

\* ------------------------------------------------------------------ start and stop
\* start() when binding the listener fails by raising out of start()
start_bind_fatal(bind_ok) ==
    /\ ~agent.running
    /\ agent.stop = ""
    /\ agent' = [agent EXCEPT !.running = TRUE,
                              !.server = IF bind_ok THEN "listening" ELSE "none",
                              !.decision_process_task = IF bind_ok THEN "sleeping" ELSE "none"]
    /\ sent' = {}
    /\ last' = "start"
    /\ UNCHANGED <<sessions, fsm, adj_rib_in, adj_rib_out, loc_rib, import_reject, tasks, now,
                   connvars>>

\* start(): running is set, _start_listener binds (or logs a warning and
\* leaves self.server None when the bind raises), the decision loop is
\* scheduled and sleeps
start(bind_ok) ==
    /\ ~agent.running
    /\ agent.stop = ""
    /\ agent' = [agent EXCEPT !.running = TRUE,
                              !.server = IF bind_ok THEN "listening" ELSE "none",
                              !.decision_process_task = "sleeping"]
    /\ sent' = {}
    /\ last' = "start"
    /\ UNCHANGED <<sessions, fsm, adj_rib_in, adj_rib_out, loc_rib, import_reject, tasks, now,
                   connvars>>

\* the sessions stop() reaches: all of them, or those before the one whose
\* stop() raises
RECURSIVE sessions_before(_, _)
sessions_before(keys, failing) ==
    IF keys = <<>> \/ Head(keys) = failing THEN {}
    ELSE {Head(keys)} \cup sessions_before(Tail(keys), failing)

\* await session.stop() for the sessions of S: Idle, the socket closed, a
\* pending attempt dropped, the Adj-RIBs flushed
stop_sessions(S) ==
    /\ fsm' = [k \in DOMAIN fsm |-> IF k \in S THEN STATE_IDLE ELSE fsm[k]]
    /\ writer' = [k \in DOMAIN writer |-> IF k \in S THEN NoConn ELSE writer[k]]
    /\ outbound' = [k \in DOMAIN outbound |-> IF k \in S THEN "none" ELSE outbound[k]]
    /\ conn' = [c \in Conns |-> IF \E k \in S : writer[k] = c
                                THEN [conn[c] EXCEPT !.st = "closed"] ELSE conn[c]]
    /\ adj_rib_in' = [k \in DOMAIN adj_rib_in |-> IF k \in S THEN EmptyDict ELSE adj_rib_in[k]]
    /\ adj_rib_out' = [k \in DOMAIN adj_rib_out |-> IF k \in S THEN {} ELSE adj_rib_out[k]]

\* stop(); failing is the session whose stop() raises, "" when none does.
\* Nothing in stop() catches the exception, so the statements after the
\* loop over the sessions are not reached
stop(failing) ==
    /\ agent.running
    /\ failing = "" \/ failing \in SessionKeys
    /\ stop_sessions(sessions_before(sessions, failing))
    /\ agent' = IF failing = ""
                THEN [agent EXCEPT !.running = FALSE,
                                   !.server = IF @ = "listening" THEN "closed" ELSE @,
                                   !.decision_process_task =
                                       IF @ = "sleeping" THEN "cancelled" ELSE @,
                                   !.stop = "returned",
                                   !.stopped = sessions_before(sessions, failing)]
                ELSE [agent EXCEPT !.running = FALSE,
                                   !.stop = "raised",
                                   !.stopped = sessions_before(sessions, failing)]
    /\ sent' = {}
    /\ last' = "stop"
    /\ UNCHANGED <<sessions, loc_rib, import_reject, tasks, now, mesh_sessions, pending_open>>

\* the loop's sleep returns: _run_decision_process runs, then "while
\* self.running" is tested
LoopPass ==
    /\ agent.decision_process_task = "sleeping"
    /\ RunDecisionProcess
    /\ agent' = [agent EXCEPT !.decision_process_task =
                                  IF agent.running THEN "sleeping" ELSE "done"]

\* a connection reaches the listening socket and its handler runs
ListenerAccept(c, src) ==
    /\ agent.server = "listening"
    /\ Incoming(c, src)

\* a session that was not stopped reaches Established
LiveSessionEstablished(key) ==
    /\ key \notin agent.stopped
    /\ SessionEstablished(key)

LifeIdle == <<prep, injected, configs, cmp, igp_cost_lookup, raised, api, announced,
              speaker, more>>

InitLife ==
    /\ sessions = <<EBGP1, IBGP1>>
    /\ fsm = [k \in PeerKeys |-> STATE_IDLE]
    /\ adj_rib_in = [k \in PeerKeys |-> EmptyDict]
    /\ adj_rib_out = [k \in PeerKeys |-> {}]
    /\ loc_rib = EmptyDict
    /\ import_reject = {}
    /\ tasks = {}
    /\ now = 0
    /\ sent = {}
    /\ last = "init"
    /\ mesh_sessions = EmptyDict
    /\ ConnQuiet
    /\ prep = PrepIdle
    /\ injected = EmptyDict
    /\ ExtraIdle

NextLife ==
    \/ /\ \E bind_ok \in BOOLEAN : start(bind_ok)
       /\ UNCHANGED LifeIdle
    \/ /\ \E failing \in {""} \cup PeerKeys : stop(failing)
       /\ UNCHANGED LifeIdle
    \/ /\ LoopPass
       /\ UNCHANGED <<connvars, LifeIdle>>
    \/ /\ \E c \in Conns, src \in Announcers : ListenerAccept(c, src)
       /\ sent' = {}
       /\ last' = "incoming"
       /\ UNCHANGED <<sessions, mesh_sessions, adj_rib_in, adj_rib_out, loc_rib, import_reject,
                      now, agent, LifeIdle>>
    \/ /\ \E key \in PeerKeys : LiveSessionEstablished(key)
       /\ UNCHANGED <<connvars, agent, LifeIdle>>
    \/ /\ \E key \in Announcers : \E a \in Announcements(key) :
              /\ key \notin agent.stopped
              /\ UpdateMsg(key, a.prefix, a.attrs)
       /\ UNCHANGED <<connvars, agent, LifeIdle>>
    \/ /\ \E t \in tasks : OnSessionEstablished(t)
       /\ UNCHANGED <<connvars, agent, LifeIdle>>

SpecLife == InitLife /\ [][NextLife]_vars

\* ------------------------------------------------------------------ the connector
\* the networks the tools are called with: the prefixes and a string with no "/"
ToolNetworks == Prefixes \cup {"10.0.0.0"}

\* len(network.split("/")) = 2 and ipaddress.ip_address(parts[0]) parses
network_valid(network) == network \in Prefixes

\* BGPConnector.get_rib(prefix): the networks of the routes it returns;
\* "" stands for prefix=None
get_rib(prefix) ==
    /\ speaker' = [speaker EXCEPT !.op = "get_rib", !.network = prefix, !.success = TRUE,
                                  !.routes = IF prefix # ""
                                             THEN {prefix} \cap DOMAIN loc_rib
                                             ELSE {loc_rib[p].prefix : p \in DOMAIN loc_rib}]

\* BGPConnector.inject_route(network)
inject_route(network) ==
    /\ speaker' = [speaker EXCEPT !.op = "inject_route", !.network = network,
                                  !.success = network_valid(network), !.routes = {},
                                  !.rib = IF network_valid(network) THEN @ \cup {network}
                                          ELSE @]

\* BGPConnector.withdraw_route(network)
connector_withdraw_route(network) ==
    /\ speaker' = [speaker EXCEPT !.op = "withdraw_route", !.network = network,
                                  !.success = network_valid(network) /\ network \in speaker.rib,
                                  !.routes = {},
                                  !.rib = IF network_valid(network) THEN @ \ {network} ELSE @]

ConnectorIdle == <<connvars, prep, injected, configs, cmp, igp_cost_lookup, raised, api,
                   announced, agent, more>>

NextConnector ==
    \/ /\ \E network \in ToolNetworks : inject_route(network)
       /\ last' = "inject_route"
       /\ UNCHANGED <<sessions, fsm, adj_rib_in, adj_rib_out, loc_rib, import_reject, tasks,
                      now, sent, ConnectorIdle>>
    \/ /\ \E network \in ToolNetworks : connector_withdraw_route(network)
       /\ last' = "withdraw_route"
       /\ UNCHANGED <<sessions, fsm, adj_rib_in, adj_rib_out, loc_rib, import_reject, tasks,
                      now, sent, ConnectorIdle>>
    \/ /\ \E prefix \in ToolNetworks \cup {""} : get_rib(prefix)
       /\ last' = "get_rib"
       /\ UNCHANGED <<sessions, fsm, adj_rib_in, adj_rib_out, loc_rib, import_reject, tasks,
                      now, sent, ConnectorIdle>>
    \/ /\ \E key \in PeerKeys : SessionEstablished(key)
       /\ UNCHANGED <<connvars, prep, injected, extra>>
    \/ /\ \E key \in Announcers : \E a \in Announcements(key) : UpdateMsg(key, a.prefix, a.attrs)
       /\ UNCHANGED <<connvars, prep, injected, extra>>
    \/ /\ \E t \in tasks : OnSessionEstablished(t)
       /\ UNCHANGED <<connvars, prep, injected, extra>>
    \/ DecisionCycle

SpecConnector == InitLife /\ [][NextConnector]_vars

\* inbound connections, the sessions' own connections and the FSM
ConnIdle == <<sessions, mesh_sessions, adj_rib_in, adj_rib_out, loc_rib, import_reject, now,
              sent, last, prep, injected, extra>>

InitConn ==
    /\ ConnInit
    /\ prep = PrepIdle
    /\ injected = EmptyDict
    /\ ExtraIdle

NextConn ==
    \/ /\ \E key \in PeerKeys : ManualStart(key)
       /\ UNCHANGED ConnIdle
    \/ /\ \E key \in PeerKeys : TcpConnectionConfirmed(key)
       /\ UNCHANGED ConnIdle
    \/ /\ \E key \in PeerKeys : TcpConnectionFails(key)
       /\ UNCHANGED ConnIdle
    \/ /\ \E key \in PeerKeys : ConnectRetryTimerExpires(key)
       /\ UNCHANGED ConnIdle
    \/ /\ \E key \in PeerKeys : BGPOpenMsg(key)
       /\ UNCHANGED ConnIdle
    \/ /\ \E key \in PeerKeys : KeepAliveMsg(key)
       /\ UNCHANGED ConnIdle
    \/ /\ \E key \in PeerKeys : TearDown(key)
       /\ UNCHANGED ConnIdle
    \/ /\ \E c \in Conns, src \in SourceIps : Incoming(c, src)
       /\ UNCHANGED ConnIdle
    \/ /\ \E c \in Conns, my_as \in OpenAs : ReadOpen(c, my_as)
       /\ UNCHANGED ConnIdle
    \/ /\ \E c \in Conns : ReaderCancelled(c)
       /\ UNCHANGED ConnIdle
    \/ /\ \E c \in Conns : WriterClosed(c)
       /\ UNCHANGED ConnIdle

SpecConn == InitConn /\ [][NextConn]_vars

\* the control daemon injecting and withdrawing over the agent's sessions
InitDaemon ==
    /\ RibInit
    /\ mesh_sessions = EmptyDict
    /\ ConnQuiet
    /\ prep = PrepIdle
    /\ injected = EmptyDict
    /\ ExtraIdle

\* what the daemon touches of neither the RIBs nor the connections
DaemonIdle == <<connvars, prep, configs, cmp, igp_cost_lookup, raised, agent, speaker, more>>

NextDaemon ==
    \/ /\ \E key \in PeerKeys : SessionEstablished(key)
       /\ UNCHANGED <<connvars, prep, injected, extra>>
    \/ /\ \E key \in PeerKeys :
              /\ SessionDown(key)
              /\ announced' = DictDel(announced, key)
       /\ UNCHANGED <<DaemonIdle, injected, api>>
    \/ /\ \E t \in tasks : OnSessionEstablished(t)
       /\ UNCHANGED <<connvars, prep, injected, extra>>
    \/ /\ \E network \in Networks, ok \in SUBSET PeerKeys : advertise_route(network, ok)
       /\ UNCHANGED DaemonIdle
    \/ /\ \E network \in Networks, ok \in SUBSET PeerKeys : withdraw_route(network, ok)
       /\ UNCHANGED DaemonIdle

SpecDaemon == InitDaemon /\ [][NextDaemon]_vars

\* ------------------------------------------------------------------ the daemon's main loop
\* prev_states.get(peer_ip): "" stands for None
prev_state(prev, key) == IF key \in DOMAIN prev THEN prev[key] ELSE ""

\* the body of the loop over agent.sessions.items() for the sessions "keys", in
\* order: prev_states after it and the UPDATEs it sends
RECURSIVE poll_sessions(_, _)
poll_sessions(keys, prev) ==
    IF keys = <<>> THEN [prev |-> prev, updates |-> {}]
    ELSE LET key == Head(keys)
             state == fsm[key]
             changed == state # prev_state(prev, key)
             resend == changed /\ state = STATE_ESTABLISHED /\ DOMAIN injected # {}
             rest == poll_sessions(Tail(keys),
                                   IF changed THEN DictSet(prev, key, state) ELSE prev)
         IN [prev |-> rest.prev,
             updates |-> rest.updates \cup
                         (IF resend
                          THEN {send_bgp_update(key, k, FALSE) : k \in DOMAIN injected}
                          ELSE {})]

\* one pass of main's "while True" loop, between two sleeps
main_loop(res) ==
    /\ prev_states' = res.prev
    /\ sent' = res.updates
    /\ announced' = [k \in DOMAIN announced \cup {u.to : u \in res.updates} |->
                         Announced(k) \cup {u.nlri[1] : u \in {v \in res.updates : v.to = k}}]
    /\ last' = "poll"
    /\ UNCHANGED <<sessions, fsm, adj_rib_in, adj_rib_out, loc_rib, import_reject, tasks,
                   now, injected, api>>

MainLoop ==
    /\ main_loop(poll_sessions(sessions, prev_states))
    /\ UNCHANGED <<connvars, prep, configs, cmp, igp_cost_lookup, raised, agent, speaker,
                   sel, manager, tunnel>>

\* what the daemon's API and the sessions leave alone here
LoopIdle == <<connvars, prep, configs, cmp, igp_cost_lookup, raised, agent, speaker,
              more>>

NextDaemonLoop ==
    \/ /\ \E key \in PeerKeys : SessionEstablished(key)
       /\ UNCHANGED <<LoopIdle, injected, api, announced>>
    \/ /\ \E key \in PeerKeys :
              /\ SessionDown(key)
              /\ announced' = DictDel(announced, key)
       /\ UNCHANGED <<LoopIdle, injected, api>>
    \/ /\ \E t \in tasks : OnSessionEstablished(t)
       /\ UNCHANGED <<LoopIdle, injected, api, announced>>
    \/ /\ \E network \in Networks :
              advertise_route(network, {k \in SessionKeys : is_established(k)})
       /\ UNCHANGED LoopIdle
    \/ /\ \E network \in Networks :
              withdraw_route(network, {k \in SessionKeys : is_established(k)})
       /\ UNCHANGED LoopIdle
    \/ MainLoop

\* the loop sleeps 5 seconds and polls again, for ever
SpecDaemonLoop == InitLife /\ [][NextDaemonLoop]_vars /\ WF_vars(MainLoop)

\* ------------------------------------------------------------------ peer table
\* the peer records of NETCLAW_BGP_PEERS and the bodies of POST /add_peer:
\* ip "" is a record without an ip
PeerAs == {65001, 65002}
PeerIps == {"", EBGP1, IBGP1}
PeerRecords ==
    [ip : PeerIps, peer_as : PeerAs, passive : BOOLEAN, accept_any_source : BOOLEAN]

\* f"mesh-as{peer['as']}"
synthetic_key(peer_as) ==
    CASE peer_as = 65001 -> "mesh-as65001"
      [] peer_as = 65002 -> MESH1

\* the keys the records can give
ConfigKeys == (PeerIps \ {""}) \cup {synthetic_key(a) : a \in PeerAs}

\* BGPSpeaker.add_peer(peer_ip, peer_as, passive, accept_any_source): the
\* BGPSessionConfig it hands to the agent
BGPSessionConfig(peer_ip, peer_as, passive, accept_any_source) ==
    [peer_ip |-> peer_ip, peer_as |-> peer_as, passive |-> passive,
     accept_any_source |-> accept_any_source]

\* what BGPAgent.add_peer(config) leaves in sessions, mesh_sessions and the
\* sessions' configs
add_peer(config) ==
    IF config.peer_ip \in SessionKeys
    THEN [sessions |-> sessions, mesh_sessions |-> mesh_sessions, configs |-> configs]
    ELSE [sessions |-> Append(sessions, config.peer_ip),
          mesh_sessions |-> IF config.accept_any_source
                            THEN DictSet(mesh_sessions, config.peer_as, config.peer_ip)
                            ELSE mesh_sessions,
          configs |-> DictSet(configs, config.peer_ip, config)]

\* the config main() builds for a record of NETCLAW_BGP_PEERS
main_config(peer) ==
    IF peer.accept_any_source
    THEN BGPSessionConfig(synthetic_key(peer.peer_as), peer.peer_as, TRUE, TRUE)
    ELSE BGPSessionConfig(peer.ip, peer.peer_as, peer.passive, FALSE)

\* the config POST /add_peer builds that leaves passive at its default
http_config_default_passive(body) ==
    IF body.accept_any_source
    THEN BGPSessionConfig(synthetic_key(body.peer_as), body.peer_as, FALSE, TRUE)
    ELSE BGPSessionConfig(body.ip, body.peer_as, FALSE, FALSE)

\* the config POST /add_peer builds for a request body
http_config(body) ==
    IF body.accept_any_source
    THEN BGPSessionConfig(synthetic_key(body.peer_as), body.peer_as, TRUE, TRUE)
    ELSE BGPSessionConfig(body.ip, body.peer_as, FALSE, FALSE)

\* main(): one record of the static configuration is added
main_add_peer(peer) ==
    /\ peer.accept_any_source \/ peer.ip # ""
    /\ LET res == add_peer(main_config(peer))
       IN /\ sessions' = res.sessions
          /\ mesh_sessions' = res.mesh_sessions
          /\ configs' = res.configs
    /\ UNCHANGED <<fsm, outbound>>

\* session.start(): Idle, ManualStart: Connect, and the TCP connection is
\* initiated unless the session's config is passive
session_start(state, config) ==
    IF state = STATE_IDLE
    THEN [fsm |-> STATE_CONNECT,
          outbound |-> IF config.passive THEN "none" ELSE "connecting"]
    ELSE [fsm |-> state, outbound |-> "none"]

\* BGPAgent.start_peer(peer_ip), as the speaker calls it for every peer
start_peer(key) ==
    /\ key \in SessionKeys
    /\ fsm[key] = STATE_IDLE
    /\ fsm' = [fsm EXCEPT ![key] = session_start(fsm[key], configs[key]).fsm]
    /\ outbound' = [outbound EXCEPT ![key] = session_start(fsm[key], configs[key]).outbound]
    /\ UNCHANGED <<sessions, mesh_sessions, configs>>

\* POST /add_peer: the peer is added and its session started
http_add_peer(body) ==
    /\ body.accept_any_source \/ body.ip # ""
    /\ LET config == http_config(body)
           res == add_peer(config)
           key == config.peer_ip
       IN /\ sessions' = res.sessions
          /\ mesh_sessions' = res.mesh_sessions
          /\ configs' = res.configs
          /\ fsm' = [fsm EXCEPT ![key] = session_start(fsm[key], res.configs[key]).fsm]
          /\ outbound' = [outbound EXCEPT ![key] =
                              IF fsm[key] = STATE_IDLE
                              THEN session_start(fsm[key], res.configs[key]).outbound
                              ELSE @]

\* what the peer table leaves alone
PeersIdle == <<adj_rib_in, adj_rib_out, loc_rib, import_reject, tasks, now, sent, last,
               writer, conn, pending_open, prep, injected, cmp, igp_cost_lookup, raised,
               api, announced, agent, speaker, more>>

InitPeers ==
    /\ sessions = <<>>
    /\ mesh_sessions = EmptyDict
    /\ configs = EmptyDict
    /\ fsm = [k \in ConfigKeys |-> STATE_IDLE]
    /\ outbound = [k \in ConfigKeys |-> "none"]
    /\ adj_rib_in = [k \in ConfigKeys |-> EmptyDict]
    /\ adj_rib_out = [k \in ConfigKeys |-> {}]
    /\ loc_rib = EmptyDict
    /\ import_reject = {}
    /\ tasks = {}
    /\ now = 0
    /\ sent = {}
    /\ last = "init"
    /\ writer = [k \in ConfigKeys |-> NoConn]
    /\ conn = [c \in Conns |-> NewConn]
    /\ pending_open = [k \in ConfigKeys |-> NoOpen]
    /\ prep = PrepIdle
    /\ injected = EmptyDict
    /\ cmp = CmpIdle
    /\ igp_cost_lookup = EmptyDict
    /\ raised = NoRaise
    /\ api = NoCall
    /\ announced = EmptyDict
    /\ agent = AgentNew
    /\ speaker = SpeakerNew
    /\ MoreIdle

NextPeers ==
    \/ /\ \E peer \in PeerRecords : main_add_peer(peer)
       /\ UNCHANGED PeersIdle
    \/ /\ \E body \in PeerRecords : http_add_peer(body)
       /\ UNCHANGED PeersIdle
    \/ /\ \E key \in ConfigKeys : start_peer(key)
       /\ UNCHANGED PeersIdle

SpecPeers == InitPeers /\ [][NextPeers]_vars

\* ------------------------------------------------------------------ peer table calls
\* the configurations BGPAgent.add_peer is called with directly
TableKeys == {EBGP1, IBGP1, MESH1}

TableConfigs ==
    {BGPSessionConfig(k, a, m, m) : k \in TableKeys, a \in PeerAs, m \in BOOLEAN}

\* agent.add_peer(config): an existing key returns the session there is
AddPeer(config) ==
    /\ LET res == add_peer(config)
       IN /\ sessions' = res.sessions
          /\ mesh_sessions' = res.mesh_sessions
          /\ configs' = res.configs
    /\ api' = [op |-> "add_peer", key |-> config.peer_ip,
               result |-> config.peer_ip \in SessionKeys]
    /\ UNCHANGED <<fsm, outbound>>

\* agent.remove_peer(peer_ip): an unknown key returns at once; otherwise the
\* session is stopped, leaves the mesh index where the index holds it, and
\* leaves the table
remove_peer(peer_ip) ==
    /\ IF peer_ip \notin SessionKeys
       THEN UNCHANGED <<sessions, mesh_sessions, configs, fsm, outbound>>
       ELSE /\ fsm' = [fsm EXCEPT ![peer_ip] = STATE_IDLE]
            /\ outbound' = [outbound EXCEPT ![peer_ip] = "none"]
            /\ mesh_sessions' = [a \in {x \in DOMAIN mesh_sessions : mesh_sessions[x] # peer_ip}
                                     |-> mesh_sessions[a]]
            /\ sessions' = SelectSeq(sessions, LAMBDA k : k # peer_ip)
            /\ configs' = DictDel(configs, peer_ip)
    /\ api' = [op |-> "remove_peer", key |-> peer_ip, result |-> peer_ip \in SessionKeys]

TableIdle == <<adj_rib_in, adj_rib_out, loc_rib, import_reject, tasks, now, sent, last,
               writer, conn, pending_open, prep, injected, cmp, igp_cost_lookup, raised,
               announced, agent, speaker, more>>

NextTable ==
    \/ /\ \E config \in TableConfigs : AddPeer(config)
       /\ UNCHANGED TableIdle
    \/ /\ \E peer_ip \in TableKeys : remove_peer(peer_ip)
       /\ UNCHANGED TableIdle
    \/ /\ \E key \in TableKeys : start_peer(key)
       /\ UNCHANGED <<TableIdle, api>>

SpecTable == InitPeers /\ [][NextTable]_vars

\* ------------------------------------------------------------------ originate_route
\* the prefixes originate_route is called with
OriginatePrefixes == {PFX_B, "4.4.4.4", "10.0.0.0/x", "10.0.0.0/8/1"}

\* prefix.split('/')
split_slash(prefix) ==
    CASE prefix = PFX_B          -> <<"10.99.99.0", "24">>
      [] prefix = "4.4.4.4"      -> <<"4.4.4.4">>
      [] prefix = "10.0.0.0/x"   -> <<"10.0.0.0", "x">>
      [] prefix = "10.0.0.0/8/1" -> <<"10.0.0.0", "8", "1">>
      [] OTHER                   -> <<prefix>>

\* int(s) returns
int_parses(s) == s \in {"8", "24", "32", "1"}

\* the "Parse prefix" block returns: without a '/' the length is 32, with one
\* the length field must be an integer, with more the unpacking raises
prefix_parses(prefix) ==
    LET parts == split_slash(prefix)
    IN IF Len(parts) = 1 THEN TRUE
       ELSE IF Len(parts) = 2 THEN int_parses(parts[2])
       ELSE FALSE

\* originate_route(prefix) called with or without a running event loop:
\* asyncio.create_task raises RuntimeError when no loop is running, after
\* the route has been installed
originate_route(prefix, loop_running) ==
    /\ IF ~prefix_parses(prefix)
       THEN /\ api' = [op |-> "originate_route", key |-> prefix, result |-> FALSE]
            /\ UNCHANGED <<loc_rib, tasks>>
       ELSE /\ loc_rib' = DictSet(loc_rib, prefix, LocalRoute(prefix))
            /\ IF loop_running
               THEN /\ tasks' = tasks \cup {[kind |-> "advertise", prefixes |-> <<prefix>>,
                                             peer_ip |-> ""]}
                    /\ api' = [op |-> "originate_route", key |-> prefix, result |-> TRUE]
               ELSE /\ tasks' = tasks
                    /\ api' = [op |-> "originate_route", key |-> prefix, result |-> FALSE]
    /\ sent' = {}
    /\ last' = "originate"
    /\ UNCHANGED <<sessions, fsm, adj_rib_in, adj_rib_out, import_reject, now>>

OriginateIdle == <<connvars, prep, injected, configs, cmp, igp_cost_lookup,
                   raised, announced, agent, speaker, more>>

NextOriginate ==
    \/ /\ \E key \in PeerKeys : SessionEstablished(key)
       /\ UNCHANGED <<OriginateIdle, api>>
    \/ /\ \E key \in PeerKeys : SessionDown(key)
       /\ UNCHANGED <<OriginateIdle, api>>
    \/ /\ \E prefix \in OriginatePrefixes, loop_running \in BOOLEAN :
              originate_route(prefix, loop_running)
       /\ UNCHANGED OriginateIdle
    \/ /\ \E t \in tasks : RunAdvertiseTask(t)
       /\ UNCHANGED <<OriginateIdle, api>>

SpecOriginate == InitLife /\ [][NextOriginate]_vars

\* ------------------------------------------------------------------ GRE manager
\* GREManager(local_ip=..., max_tunnels=...)
manager_local_ip == "192.168.1.1"
max_tunnels == 2

\* the configurations create_tunnel is called with; local_ip "" is the unset
\* address the manager fills in
TunnelNames == {"gre0", "gre1"}
RemoteIps == {"192.168.2.1", "192.168.2.2"}
TunnelConfigs == [name : TunnelNames, local_ip : {"", manager_local_ip}, remote_ip : RemoteIps]

\* f"{local_ip}-{remote_ip}"
endpoint_key(local_ip, remote_ip) == <<local_ip, remote_ip>>

\* f"gre-auto-{tunnel_num}"
auto_name(tunnel_num) ==
    CASE tunnel_num = 0 -> "gre-auto-0"
      [] tunnel_num = 1 -> "gre-auto-1"
      [] OTHER -> "gre-auto-2"

\* the GRETunnel create_tunnel stores: its config after the override of
\* local_ip, and the state tunnel.start() left
GRETunnel(config, success) ==
    [name |-> config.name,
     local_ip |-> IF config.local_ip = "" THEN manager_local_ip ELSE config.local_ip,
     remote_ip |-> config.remote_ip,
     state |-> IF success THEN "up" ELSE "failed"]

\* the manager after create_tunnel(config); success is what tunnel.start()
\* returns. The endpoint key is computed before local_ip is overridden.
create_tunnel(m, config, success) ==
    LET call == [op |-> "create_tunnel", name |-> config.name, local_ip |-> config.local_ip,
                 remote_ip |-> config.remote_ip, result |-> "None"]
        key == endpoint_key(config.local_ip, config.remote_ip)
        t == GRETunnel(config, success)
    IN IF Cardinality(DOMAIN m._tunnels) >= max_tunnels THEN [m EXCEPT !.call = call]
       ELSE IF config.name \in DOMAIN m._tunnels THEN [m EXCEPT !.call = call]
       ELSE IF key \in DOMAIN m._tunnels_by_endpoint THEN [m EXCEPT !.call = call]
       ELSE [_tunnels |-> DictSet(m._tunnels, config.name, t),
             _tunnels_by_endpoint |-> DictSet(m._tunnels_by_endpoint, key, t),
             call |-> [call EXCEPT !.result = "tunnel"]]

\* the manager after delete_tunnel(name)
delete_tunnel(m, name) ==
    LET call == [op |-> "delete_tunnel", name |-> name, local_ip |-> "", remote_ip |-> "",
                 result |-> "False"]
    IN IF name \notin DOMAIN m._tunnels THEN [m EXCEPT !.call = call]
       ELSE LET t == m._tunnels[name]
                key == endpoint_key(t.local_ip, t.remote_ip)
            IN [_tunnels |-> DictDel(m._tunnels, name),
                _tunnels_by_endpoint |-> DictDel(m._tunnels_by_endpoint, key),
                call |-> [call EXCEPT !.result = "True"]]

\* the manager after _auto_create_tunnel(remote_ip, header)
_auto_create_tunnel(m, remote_ip, success) ==
    create_tunnel(m, [name |-> auto_name(Cardinality(DOMAIN m._tunnels)),
                      local_ip |-> manager_local_ip, remote_ip |-> remote_ip], success)

CreateTunnel(config, success) == manager' = create_tunnel(manager, config, success)

DeleteTunnel(name) == manager' = delete_tunnel(manager, name)

\* the passive receive loop auto-creates a tunnel for a source it has no
\* endpoint entry for
AutoCreateTunnel(remote_ip, success) ==
    /\ endpoint_key(manager_local_ip, remote_ip) \notin DOMAIN manager._tunnels_by_endpoint
    /\ manager' = _auto_create_tunnel(manager, remote_ip, success)

ManagerIdle == <<sessions, fsm, adj_rib_in, adj_rib_out, loc_rib, import_reject, tasks, now,
                 sent, last, connvars, prep, injected, configs, cmp, igp_cost_lookup, raised,
                 api, announced, agent, speaker, prev_states, sel, tunnel>>

NextManager ==
    \/ /\ \E config \in TunnelConfigs, success \in BOOLEAN : CreateTunnel(config, success)
       /\ UNCHANGED ManagerIdle
    \/ /\ \E name \in TunnelNames \cup {auto_name(n) : n \in 0..max_tunnels} : DeleteTunnel(name)
       /\ UNCHANGED ManagerIdle
    \/ /\ \E remote_ip \in RemoteIps, success \in BOOLEAN : AutoCreateTunnel(remote_ip, success)
       /\ UNCHANGED ManagerIdle

SpecManager == InitLife /\ [][NextManager]_vars

\* ------------------------------------------------------------------ GRE tunnel
\* config.keepalive_retries, and the sends that reach the socket and the
\* calls of start() in a run
keepalive_retries == 2
MaxSends == 3
MaxStarts == 2

\* (sequence_tx + 1) % (2**32) on the two halves
succ32(seq) ==
    IF seq[2] + 1 < 65536 THEN <<seq[1], seq[2] + 1>>
    ELSE <<(seq[1] + 1) % 65536, 0>>

\* the counter of a tunnel that has sent 2**32 - 2 packets
SeqNearWrap == <<65535, 65534>>

\* the loops run while the state is up or establishing
loops_run(t) == t.state \in {"up", "establishing"}

\* tunnel.start(): success is whether the socket could be created
tunnel_start(t, success) ==
    IF success
    THEN [t EXCEPT !.state = "up", !.state_reason = "", !.socket = TRUE, !.starts = @ + 1,
                   !.call = [op |-> "start", result |-> TRUE]]
    ELSE [t EXCEPT !.state = "failed", !.state_reason = "error", !.starts = @ + 1,
                   !.call = [op |-> "start", result |-> FALSE]]

\* tunnel.stop()
tunnel_stop(t) ==
    [t EXCEPT !.state = "down", !.state_reason = "Stopped", !.socket = FALSE,
              !.call = [op |-> "stop", result |-> TRUE]]

\* tunnel.send(payload): fits is len(payload) <= mtu, sock_ok is whether
\* encoding and sock_sendto return without raising
send(t, fits, sock_ok) ==
    IF t.state # "up" \/ ~t.socket THEN [t EXCEPT !.call = [op |-> "send", result |-> FALSE]]
    ELSE IF ~fits THEN [t EXCEPT !.call = [op |-> "send", result |-> FALSE]]
    ELSE [t EXCEPT !.sequence_tx = IF t.use_sequence THEN succ32(@) ELSE @,
                   !.attempts = @ + 1,
                   !.wire = IF sock_ok
                            THEN Append(@, IF t.use_sequence THEN t.sequence_tx ELSE NoSeq)
                            ELSE @,
                   !.call = [op |-> "send", result |-> sock_ok]]

\* one pass of _receive_loop for a packet: accepted is whether it comes from
\* the remote, decodes and carries the configured key
receive(t, accepted) ==
    IF accepted
    THEN [t EXCEPT !.last_keepalive_rx = TRUE, !.since_rx = 0, !.keepalive_failures = 0,
                   !.call = [op |-> "receive", result |-> TRUE]]
    ELSE [t EXCEPT !.call = [op |-> "receive", result |-> FALSE]]

\* time.time() - self._last_keepalive_rx after one more keepalive_interval,
\* in intervals, counted up to the first value above the timeout
elapsed_after(t) ==
    IF t.since_rx > keepalive_retries THEN t.since_rx ELSE t.since_rx + 1

\* the failure count after the timeout check of one pass
failures_after(t) ==
    IF t.last_keepalive_rx /\ elapsed_after(t) > keepalive_retries
    THEN t.keepalive_failures + 1
    ELSE t.keepalive_failures

\* one pass of _keepalive_loop: sleep, probe, timeout check
keepalive_pass(t) ==
    IF t.state # "up" THEN [t EXCEPT !.call = [op |-> "keepalive", result |-> FALSE]]
    ELSE [t EXCEPT !.since_rx = IF t.last_keepalive_rx THEN elapsed_after(t) ELSE @,
                   !.keepalive_failures = failures_after(t),
                   !.state = IF failures_after(t) > t.keepalive_failures
                                /\ failures_after(t) >= keepalive_retries
                             THEN "down" ELSE @,
                   !.state_reason = IF failures_after(t) > t.keepalive_failures
                                       /\ failures_after(t) >= keepalive_retries
                                    THEN "Keepalive timeout" ELSE @,
                   !.call = [op |-> "keepalive", result |-> TRUE]]

TunnelStart(success) ==
    /\ tunnel.starts < MaxStarts
    /\ tunnel.state = "down"
    /\ ~tunnel.socket
    /\ tunnel' = tunnel_start(tunnel, success)

TunnelStop ==
    /\ tunnel.socket
    /\ tunnel' = tunnel_stop(tunnel)

Send(fits, sock_ok) ==
    /\ tunnel.attempts < MaxSends
    /\ tunnel' = send(tunnel, fits, sock_ok)

Receive(accepted) ==
    /\ loops_run(tunnel)
    /\ tunnel.socket
    /\ tunnel' = receive(tunnel, accepted)

KeepalivePass ==
    /\ loops_run(tunnel)
    /\ tunnel.keepalive_interval > 0
    /\ tunnel' = keepalive_pass(tunnel)

TunnelIdle == <<sessions, fsm, adj_rib_in, adj_rib_out, loc_rib, import_reject, tasks, now,
                sent, last, connvars, prep, injected, configs, cmp, igp_cost_lookup, raised,
                api, announced, agent, speaker, prev_states, sel, manager>>

InitTunnel ==
    /\ sessions = <<>>
    /\ mesh_sessions = EmptyDict
    /\ fsm = [k \in PeerKeys |-> STATE_IDLE]
    /\ adj_rib_in = [k \in PeerKeys |-> EmptyDict]
    /\ adj_rib_out = [k \in PeerKeys |-> {}]
    /\ loc_rib = EmptyDict
    /\ import_reject = {}
    /\ tasks = {}
    /\ now = 0
    /\ sent = {}
    /\ last = "init"
    /\ ConnQuiet
    /\ injected = EmptyDict
    /\ prep = PrepIdle
    /\ configs = EmptyDict
    /\ cmp = CmpIdle
    /\ igp_cost_lookup = EmptyDict
    /\ raised = NoRaise
    /\ api = NoCall
    /\ announced = EmptyDict
    /\ agent = AgentNew
    /\ speaker = SpeakerNew
    /\ prev_states = EmptyDict
    /\ sel = SelIdle
    /\ manager = ManagerNew
    /\ \E use_sequence \in BOOLEAN, keepalive_interval \in {0, 10},
          sequence_tx \in {SeqZero, SeqNearWrap} :
           tunnel = GRETunnelInit(use_sequence, keepalive_interval, sequence_tx)

NextTunnel ==
    \/ /\ \E success \in BOOLEAN : TunnelStart(success)
       /\ UNCHANGED TunnelIdle
    \/ /\ TunnelStop
       /\ UNCHANGED TunnelIdle
    \/ /\ \E fits \in BOOLEAN, sock_ok \in BOOLEAN : Send(fits, sock_ok)
       /\ UNCHANGED TunnelIdle
    \/ /\ \E accepted \in BOOLEAN : Receive(accepted)
       /\ UNCHANGED TunnelIdle
    \/ /\ KeepalivePass
       /\ UNCHANGED TunnelIdle

SpecTunnel == InitTunnel /\ [][NextTunnel]_vars

\* the keepalive task, once created, runs a pass every keepalive_interval
SpecKeepalive ==
    InitTunnel /\ [][NextTunnel]_vars /\ WF_vars(KeepalivePass /\ UNCHANGED TunnelIdle)

\* ------------------------------------------------------------------ claims on the RIB
\* the UPDATE sent to a session by the last step advertises the prefix
Advertised(key, prefix) == \E u \in sent : u.to = key /\ prefix \in Range(u.nlri)

\* C1: after a run of the decision process, for every prefix that is in
\* Loc-RIB as a non-local route or in some Adj-RIB-In, Loc-RIB holds the
\* selector's result over the established peers' accepted Adj-RIB-In routes
\* for it, and nothing when there is no candidate.
C1_LocRibCoherence ==
    last = "decision" =>
        \A p \in Prefixes :
            (\/ p \in DOMAIN loc_rib /\ loc_rib[p].source # "local"
             \/ \E k \in SessionKeys : p \in DOMAIN adj_rib_in[k])
            => IF candidates(p) = <<>>
               THEN p \notin DOMAIN loc_rib
               ELSE p \in DOMAIN loc_rib /\ loc_rib[p] = select_best(candidates(p))

\* C2: after a run of the decision process Loc-RIB holds no non-local route
\* learned from a peer that has left Established or has been removed.
C2_NoRouteFromDownPeer ==
    last = "decision" =>
        \A p \in DOMAIN loc_rib :
            loc_rib[p].source # "local"
            => loc_rib[p].peer_id \in SessionKeys /\ is_established(loc_rib[p].peer_id)

\* LOCAL_PREF of a route, 100 when absent
LocalPrefOf(route) ==
    IF has_attribute(route, ATTR_LOCAL_PREF) THEN get_attribute(route, ATTR_LOCAL_PREF).val
    ELSE DEFAULT_LOCAL_PREF

\* the prefix has exactly the two candidates of peers hi and lo, and hi's
\* LOCAL_PREF is the higher
TwoCandidates(p, hi, lo) ==
    /\ p \in DOMAIN adj_rib_in[hi]
    /\ p \in DOMAIN adj_rib_in[lo]
    /\ Len(candidates(p)) = 2
    /\ {candidates(p)[1], candidates(p)[2]} = {adj_rib_in[hi][p], adj_rib_in[lo][p]}
    /\ LocalPrefOf(adj_rib_in[hi][p]) > LocalPrefOf(adj_rib_in[lo][p])

\* C3 (selection): when two established peers advertise a prefix with
\* different LOCAL_PREF, after a decision cycle Loc-RIB holds the route of
\* the peer with the higher LOCAL_PREF, with the LOCAL_PREF that peer
\* advertises.
C3_HigherLocalPref ==
    last = "decision" =>
        \A p \in Prefixes : \A hi, lo \in SessionKeys :
            TwoCandidates(p, hi, lo)
            => /\ p \in DOMAIN loc_rib
               /\ loc_rib[p].peer_id = hi
               /\ LocalPrefOf(loc_rib[p]) = LocalPrefOf(adj_rib_in[hi][p])

\* C3 (fail-over): a decision cycle that finds the Loc-RIB entry's peer no
\* longer established and one other peer advertising the prefix replaces the
\* entry with that peer's route.
C3_FailOver ==
    \A p \in Prefixes : \A lo \in SessionKeys :
        (/\ last' = "decision"
         /\ p \in DOMAIN loc_rib
         /\ loc_rib[p].source # "local"
         /\ ~is_established(loc_rib[p].peer_id)
         /\ p \in DOMAIN adj_rib_in[lo]
         /\ candidates(p) = <<adj_rib_in[lo][p]>>)
        => p \in DOMAIN loc_rib' /\ loc_rib'[p] = adj_rib_in[lo][p]

\* C3: best path by LOCAL_PREF with fail-over, both parts.
C3_LocalPrefFailover == [](C3_HigherLocalPref) /\ [][C3_FailOver]_vars

\* the filter at send time: no UPDATE advertises to a peer a prefix whose
\* Loc-RIB entry is, when it is sent, a non-local route learned from that peer
SplitHorizonAtSend ==
    \A u \in sent : \A p \in Range(u.nlri) :
        p \in DOMAIN loc_rib
        => loc_rib[p].source = "local" \/ loc_rib[p].peer_id # u.to

\* C4: for every non-local Loc-RIB entry learned from an established peer X,
\* no UPDATE advertises the prefix to X: none is sent to X while the entry
\* stands, and X's Adj-RIB-Out (what was advertised to X and not withdrawn
\* since) does not hold the prefix.
C4_SplitHorizon ==
    /\ SplitHorizonAtSend
    /\ \A p \in DOMAIN loc_rib : \A key \in SessionKeys :
           (/\ loc_rib[p].source # "local"
            /\ loc_rib[p].peer_id = key
            /\ is_established(key))
           => p \notin adj_rib_out[key]

\* the attribute of an attribute list with a type code (the list has one)
AttrOf(attrs, code) == attrs[CHOOSE i \in 1..Len(attrs) : attrs[i].type_code = code]
HasAttr(attrs, code) == \E i \in 1..Len(attrs) : attrs[i].type_code = code

\* an UPDATE that carries the locally originated prefix to an eBGP session
\* as the claim describes it
InjectionUpdate(u, key, prefix) ==
    /\ u.to = key
    /\ prefix \in Range(u.nlri)
    /\ HasAttr(u.path_attributes, ATTR_NEXT_HOP)
    /\ AttrOf(u.path_attributes, ATTR_NEXT_HOP).ip = SessionConfig(key).local_ip
    /\ HasAttr(u.path_attributes, ATTR_AS_PATH)
    /\ AttrOf(u.path_attributes, ATTR_AS_PATH).segments = <<Segment(AS_SEQUENCE, <<local_as>>)>>
    /\ HasAttr(u.path_attributes, ATTR_ORIGIN)
    /\ AttrOf(u.path_attributes, ATTR_ORIGIN).val = ORIGIN_IGP

\* C7 (install): originate(p) installs p in Loc-RIB as a local route with an
\* empty AS_PATH, ORIGIN IGP and LOCAL_PREF 100.
C7_Installs ==
    \A p \in Prefixes :
        Originate(p) =>
            /\ p \in DOMAIN loc_rib'
            /\ loc_rib'[p].source = "local"
            /\ AttrOf(loc_rib'[p].path_attributes, ATTR_AS_PATH).segments = <<>>
            /\ AttrOf(loc_rib'[p].path_attributes, ATTR_ORIGIN).val = ORIGIN_IGP
            /\ AttrOf(loc_rib'[p].path_attributes, ATTR_LOCAL_PREF).val = 100

\* C7 (advertise): the advertisement that originate(p) scheduled sends every
\* established eBGP peer an UPDATE with p in its NLRI, NEXT_HOP the session's
\* local address, AS_PATH [local-AS] and ORIGIN IGP.
C7_Advertises ==
    \A t \in tasks :
        RunAdvertiseTask(t) =>
            \A key \in SessionKeys :
                (is_established(key) /\ SessionConfig(key).peer_as # local_as)
                => \E u \in sent' : InjectionUpdate(u, key, t.prefixes[1])

\* C7: route injection, both parts.
C7_RouteInjection == [][C7_Installs]_vars /\ [][C7_Advertises]_vars

\* C14: a step that takes a prefix's entry out of Loc-RIB sends every
\* established peer that has the prefix in its Adj-RIB-Out an UPDATE with the
\* prefix in withdrawn-routes.
C14_Withdraws ==
    \A p \in Prefixes :
        (p \in DOMAIN loc_rib /\ p \notin DOMAIN loc_rib')
        => \A key \in SessionKeys :
               (is_established(key) /\ p \in adj_rib_out[key])
               => \E u \in sent' : u.to = key /\ p \in Range(u.withdrawn_routes)

C15_Tracked ==
    \A u \in sent' :
        adj_rib_out'[u.to] =
            (adj_rib_out[u.to] \ Range(u.withdrawn_routes)) \cup Range(u.nlri)

C15_AdjRibOutTracking == [][C15_Tracked]_vars

\* C16 (callback): a session entering Established schedules the callback
\* for its peer.
C16_Scheduled ==
    \A key \in SessionKeys :
        (~is_established(key) /\ fsm'[key] = STATE_ESTABLISHED)
        => \E t \in tasks' : t.kind = "established" /\ t.peer_ip = key

\* C16 (dump): the callback of a peer, run while the peer is Established,
\* sends the peer an UPDATE whose NLRI holds every Loc-RIB prefix that
\* the advertisement policy allows for the peer.
C16_Dumps ==
    \A t \in tasks :
        (OnSessionEstablished(t) /\ t.peer_ip \in SessionKeys /\ is_established(t.peer_ip))
        => \A p \in DOMAIN loc_rib :
               _should_advertise_to_peer(loc_rib[p], t.peer_ip)
               => \E u \in sent' : u.to = t.peer_ip /\ p \in Range(u.nlri)

FromSnapshot == decide_all(EmptyDict, all_prefixes)

\* C17: the Loc-RIB entry a decision cycle leaves for a prefix (other than a
\* locally originated one) is the one it leaves when started from the same
\* Adj-RIB-In contents and session states with an empty Loc-RIB: it does
\* not depend on what Loc-RIB held before.
C17_SameOutput ==
    last' = "decision" =>
        \A p \in Prefixes :
            (p \in DOMAIN loc_rib => loc_rib[p].source # "local")
            => /\ p \in DOMAIN loc_rib' <=> p \in DOMAIN FromSnapshot
               /\ p \in DOMAIN loc_rib' => loc_rib'[p] = FromSnapshot[p]

C17_PureFunction == [][C17_SameOutput]_vars

\* ------------------------------------------------------------------ claims on the attributes
\* C5: an attribute list prepared for a peer whose AS differs from local-AS
\* has local-AS as the leftmost element of its AS_PATH, whether the route's
\* AS_PATH was present, empty or absent, and the route's own attribute list
\* is as it was before the call.
C5_EbgpPrepend ==
    (prep.done /\ SessionConfig(prep.key).peer_as # local_as) =>
        /\ HasAttr(prep.modified, ATTR_AS_PATH)
        /\ leftmost_as(AttrOf(prep.modified, ATTR_AS_PATH).segments) = local_as
        /\ prep.stored = prep.attributes

\* C5 happens: attributes without an AS_PATH were prepared for an eBGP peer
C5_Witness ==
    /\ prep.done
    /\ SessionConfig(prep.key).peer_as # local_as
    /\ ~HasAttr(prep.attributes, ATTR_AS_PATH)
    /\ HasAttr(prep.modified, ATTR_AS_PATH)

\* C6: no UPDATE sent to an eBGP peer carries LOCAL_PREF, and every UPDATE
\* that advertises NLRI to an iBGP peer carries LOCAL_PREF.
C6_LocalPrefDiscipline ==
    \A u \in sent :
        IF SessionConfig(u.to).peer_as # local_as
        THEN ~HasAttr(u.path_attributes, ATTR_LOCAL_PREF)
        ELSE u.nlri # <<>> => HasAttr(u.path_attributes, ATTR_LOCAL_PREF)

\* ------------------------------------------------------------------ claims on the connections
\* C8: an incoming connection whose handler finds the session Established is
\* closed, and accept_connection is never called on an Established session.
C8_EstablishedRejects ==
    \A c \in Conns :
        /\ conn[c].state = STATE_ESTABLISHED
               => conn[c].verdict = "reject" /\ conn[c].st = "closed"
        /\ conn[c].accepted_in # STATE_ESTABLISHED

\* C9: an incoming connection that arrived with the session in OpenSent or
\* OpenConfirm is the one retained if and only if the peer's BGP Identifier
\* is higher than the local router-id.
C9_CollisionResolution ==
    \A c \in Conns :
        (conn[c].pc = "done" /\ conn[c].state \in {STATE_OPENSENT, STATE_OPENCONFIRM})
        => conn[c].verdict =
               IF IpLess(router_id, PeerBgpId(conn[c].sess)) THEN "accept" ELSE "reject"

\* no handler is between two of its steps and no outbound attempt is pending
SteadyState ==
    /\ \A c \in Conns : conn[c].pc \in {"new", "done"}
    /\ \A key \in SessionKeys : outbound[key] # "connecting"

\* the open TCP connections of a peer
LiveConnections(key) ==
    {c \in Conns : conn[c].st = "open" /\ conn[c].sess = key}
        \cup (IF outbound[key] = "open" THEN {OutConn} ELSE {})

\* C10: at steady state a configured peer has at most one live TCP
\* connection, the one its session holds, and every other connection made
\* is closed.
C10_AtMostOneTcp ==
    SteadyState =>
        /\ \A key \in SessionKeys :
               /\ Cardinality(LiveConnections(key)) <= 1
               /\ LiveConnections(key) \subseteq {writer[key]}
        /\ \A c \in Conns : conn[c].sess = "" => conn[c].st # "open"

\* C11 (step): the handler of a connection from an unconfigured source that
\* has pre-read a valid OPEN whose my-as is a mesh peer's, that peer's
\* session not being Established, attaches the connection to that session and
\* the session takes this pre-read OPEN as BGPOpen (it goes to OpenConfirm).
C11_Attach ==
    \A c \in Conns : \A my_as \in OpenAs :
        (/\ ReadOpen(c, my_as)
         /\ my_as \in DOMAIN mesh_sessions
         /\ fsm[mesh_sessions[my_as]] # STATE_ESTABLISHED)
        => /\ writer'[mesh_sessions[my_as]] = c
           /\ conn'[c].st = "open"
           /\ conn'[c].sess = mesh_sessions[my_as]
           /\ conn'[c].bgp_open = BGPOpen(my_as, c)
           /\ fsm'[mesh_sessions[my_as]] = STATE_OPENCONFIRM

\* C11 (state): a pre-read OPEN a session took as BGPOpen for a connection is
\* the one read from that connection.
C11_OwnOpen ==
    \A c \in Conns : conn[c].bgp_open # NoOpen => conn[c].bgp_open.from = c

\* C11: mesh-peer identification, both parts.
C11_MeshIdentification == [](C11_OwnOpen) /\ [][C11_Attach]_vars

\* C11 happens: a session holds a connection identified by its OPEN
C11_Witness ==
    \E c \in Conns :
        /\ conn[c].verdict = "accept"
        /\ conn[c].sess \in SessionKeys
        /\ SessionConfig(conn[c].sess).accept_any_source
        /\ conn[c].bgp_open = BGPOpen(SessionConfig(conn[c].sess).peer_as, c)
        /\ writer[conn[c].sess] = c

\* the step closes connection c and leaves every session and every other
\* connection as they were
RejectedUnchanged(c) ==
    /\ conn'[c].st = "closed"
    /\ \A x \in Conns \ {c} : conn'[x] = conn[x]
    /\ UNCHANGED <<writer, outbound, pending_open, fsm, mesh_sessions, sessions>>

\* C12 (no mesh peer): a connection from an unconfigured source is closed
\* at once when no mesh peer is configured, and nothing else changes.
C12_NoMeshPeer ==
    \A c \in Conns : \A src \in SourceIps :
        (Incoming(c, src) /\ src \notin SessionKeys /\ DOMAIN mesh_sessions = {})
        => RejectedUnchanged(c)

\* C12 (after the read): the connection is closed and nothing else changes
\* when no valid OPEN was read, when its my-as is no mesh peer's, and when
\* the mesh session it names is Established.
C12_AfterRead ==
    \A c \in Conns : \A my_as \in OpenAs :
        (/\ ReadOpen(c, my_as)
         /\ \/ my_as = 0
            \/ my_as \notin DOMAIN mesh_sessions
            \/ fsm[mesh_sessions[my_as]] = STATE_ESTABLISHED)
        => RejectedUnchanged(c)

\* C12: rejected inbound connections change nothing, all cases.
C12_RejectedChangeNothing == [][C12_NoMeshPeer]_vars /\ [][C12_AfterRead]_vars

\* C12 happens: a connection identified as an Established mesh peer's was
\* closed
C12_Witness ==
    \E c \in Conns :
        /\ conn[c].st = "closed"
        /\ conn[c].verdict = "reject"
        /\ conn[c].state = STATE_ESTABLISHED
        /\ conn[c].sess \in SessionKeys
        /\ SessionConfig(conn[c].sess).accept_any_source
        /\ fsm[conn[c].sess] = STATE_ESTABLISHED

\* ------------------------------------------------------------------ claims on the peer table
\* C13: every peer of the peer table whose config has accept-any-source set
\* has passive set, and no outbound connection is being attempted for it.
C13_MeshPeersPassive ==
    \A key \in SessionKeys :
        configs[key].accept_any_source
        => configs[key].passive /\ outbound[key] = "none"

\* C13 happens: mesh peers added by the static configuration and at run time
\* have been started, next to a peer that dials
C13_Witness ==
    /\ \E key \in SessionKeys :
           configs[key].accept_any_source /\ fsm[key] = STATE_CONNECT
    /\ \E key \in SessionKeys : outbound[key] = "connecting"
    /\ Cardinality(DOMAIN mesh_sessions) = 2

\* ------------------------------------------------------------------ claims on the comparison
Sign(x, y) == IF x < y THEN -1 ELSE IF x > y THEN 1 ELSE 0

IpSign(a, b) == IF IpLess(a, b) THEN -1 ELSE IF IpLess(b, a) THEN 1 ELSE 0

\* what each rule of the decision order looks at
PathOf(r) == get_attribute(r, ATTR_AS_PATH).segments

MedOf(r) == IF has_attribute(r, ATTR_MED) THEN get_attribute(r, ATTR_MED).val ELSE 0

IbgpOf(r) == IF leftmost_as(PathOf(r)) = LOCAL_AS THEN 1 ELSE 0

CostKnown(r) == DOMAIN igp_cost_lookup # {} /\ igp_cost_lookup[next_hop(r)] # NoCost

\* the nine rules on a pair of candidates: -1 when a wins, 1 when b wins, 0
\* on a tie
DecisionRules(a, b) ==
    << Sign(LocalPrefOf(b), LocalPrefOf(a)),
       Sign(as_path_length(PathOf(a)), as_path_length(PathOf(b))),
       Sign(get_attribute(a, ATTR_ORIGIN).val, get_attribute(b, ATTR_ORIGIN).val),
       IF leftmost_as(PathOf(a)) = leftmost_as(PathOf(b)) THEN Sign(MedOf(a), MedOf(b)) ELSE 0,
       Sign(IbgpOf(a), IbgpOf(b)),
       IF CostKnown(a) /\ CostKnown(b)
       THEN Sign(igp_cost_lookup[next_hop(a)], igp_cost_lookup[next_hop(b)])
       ELSE IF CostKnown(a) THEN -1 ELSE IF CostKnown(b) THEN 1 ELSE 0,
       Sign(a.timestamp, b.timestamp),
       IpSign(a.peer_id, b.peer_id),
       IpSign(a.peer_ip, b.peer_ip) >>

\* the rules before rule i all tie
TieBefore(rules, i) == \A j \in 1..(i - 1) : rules[j] = 0

\* C18: compare applies the nine rules in strict order (highest LOCAL_PREF with
\* absent = 100, shortest AS_PATH, lowest ORIGIN, lowest MED with absent = 0,
\* eBGP over iBGP, lowest IGP cost, oldest, lowest BGP Identifier, lowest peer
\* IP): its result is that of the first rule that does not tie, and it is 0
\* only if all nine tie.
C18_StrictOrder ==
    cmp.done =>
        LET rules == DecisionRules(cmp.route_a, cmp.route_b)
        IN /\ \A i \in 1..9 : (rules[i] # 0 /\ TieBefore(rules, i)) => cmp.result = rules[i]
           /\ cmp.result = 0 => TieBefore(rules, 10)

\* a comparison that only the last rule, the peer IP, decides
C18_Witness ==
    /\ cmp.done
    /\ TieBefore(DecisionRules(cmp.route_a, cmp.route_b), 9)
    /\ cmp.route_a.peer_ip # cmp.route_b.peer_ip
    /\ cmp.result = -1

\* ------------------------------------------------------------------ claims on send errors
\* the raising call did not reach the session's UPDATE announcing the prefix
Skipped(key, prefix) ==
    /\ last = "decision raised"
    /\ \E u \in raised.skipped : u.to = key /\ prefix \in Range(u.nlri)

\* the last call sent the session an UPDATE about the prefix
SentTo(key, prefix) ==
    \E u \in sent : u.to = key /\ prefix \in Range(u.nlri) \cup Range(u.withdrawn_routes)

\* the pass that follows the raising one, with nothing in between
PassAfterRaise == last = "decision raised" /\ last' = "decision"

\* C19: when the send to one peer raises in _advertise_routes, every other
\* established peer is still sent the UPDATE for the same changed prefixes, in
\* that cycle or a later one.  A peer the raising pass skipped was not sent it
\* in that cycle; the next pass either sends it or leaves changed prefixes
\* for a later pass to advertise (a pass that finds no changed prefix sends
\* nothing, and neither does any pass after it until a peer announces anew).
C19_ErrorsConfined ==
    [][PassAfterRaise =>
           \A key \in PeerKeys, prefix \in Prefixes :
               Skipped(key, prefix) /\ is_established(key)
               => SentTo(key, prefix)' \/ changed_set(loc_rib)' # {}]_vars

\* ------------------------------------------------------------------ claims on the daemon's withdrawal
\* a call of withdraw_route has just returned
WithdrawStep == api'.op = "withdraw_route" /\ last' \in {"withdraw_route:True", "withdraw_route:False"}

\* the UPDATE withdraws the prefix and carries nothing else
IsWithdrawalOf(u, prefix) ==
    /\ u.withdrawn_routes = <<prefix>>
    /\ u.nlri = <<>>
    /\ u.path_attributes = <<>>

\* C20: after a prefix has been advertised to an established peer,
\* withdraw(prefix) makes the next UPDATE sent to that peer carry the prefix in
\* withdrawn-routes with empty NLRI and no path attributes, and withdraw reports
\* success iff at least one established peer was sent that UPDATE.
C20_Withdraw ==
    /\ \A u \in sent' : is_established(u.to) /\ IsWithdrawalOf(u, api'.key)
    /\ \A u1, u2 \in sent' : u1.to = u2.to => u1 = u2
    /\ api'.result <=> \E u \in sent' : is_established(u.to) /\ IsWithdrawalOf(u, api'.key)

Stopped == agent.stop # ""

\* an incoming connection is handed to a session in this step
AcceptsIncoming ==
    \E c \in Conns : conn'[c].verdict = "accept" /\ conn[c].verdict # "accept"

\* C21: after stop() no further decision cycle runs, no UPDATE is sent and no
\* incoming connection is accepted, also when stopping one of the sessions
\* fails.
C21_Quiet ==
    Stopped => /\ last' # "decision"
               /\ sent' = {}
               /\ ~AcceptsIncoming

C21_Shutdown == [][C21_Quiet]_vars

\* C22: when binding the listener fails at start(), start() completes: the
\* agent is running with no listener and the decision task is started.
C22_BindFailureNotFatal ==
    (last = "start" /\ agent.server = "none")
    => agent.running /\ agent.decision_process_task = "sleeping"

\* start() has just returned after a bind that failed
C22_Witness ==
    /\ last = "start"
    /\ agent.server = "none"
    /\ agent.running

\* C23: after inject_route(network) returns success, get_rib() and
\* get_rib(network) report that network, and after withdraw_route(network)
\* returns success get_rib no longer reports it. As a step: a get_rib that
\* covers a network reports it exactly when the connector holds it injected.
Injected(network) == network \in speaker.rib

C23_Reported ==
    \A network \in Prefixes :
        speaker'.op = "get_rib" /\ speaker'.network \in {"", network}
            => (Injected(network) <=> network \in speaker'.routes)

C23_InjectThenGet == [][C23_Reported]_vars

\* a session is iBGP when its peer-as equals local-as
IsIbgpPeer(key) == SessionConfig(key).peer_as = local_as

\* C24: no route reflector is enabled, so a non-local route learned from an
\* iBGP peer is never advertised to another iBGP peer: no UPDATE written to an
\* iBGP session announces a prefix whose Loc-RIB route was learned from
\* another iBGP session.
C24_IbgpSuppression ==
    \A u \in sent : \A p \in Range(u.nlri) :
        (/\ p \in DOMAIN loc_rib
         /\ loc_rib[p].source # "local"
         /\ loc_rib[p].peer_id # u.to
         /\ IsIbgpPeer(loc_rib[p].peer_id))
        => ~IsIbgpPeer(u.to)

\* the positions of the attributes of a type code in an attribute list
PositionsOf(attributes, code) ==
    {i \in 1..Len(attributes) : attributes[i].type_code = code}

\* C25: every prepared attribute list holds ORIGIN, AS_PATH and NEXT_HOP
\* exactly once each, ORIGIN before AS_PATH before NEXT_HOP, whatever the
\* order of the input and whichever of the three it lacked.
C25_MandatoryInOrder ==
    prep.done =>
        \E o, a, n \in 1..Len(prep.modified) :
            /\ PositionsOf(prep.modified, ATTR_ORIGIN) = {o}
            /\ PositionsOf(prep.modified, ATTR_AS_PATH) = {a}
            /\ PositionsOf(prep.modified, ATTR_NEXT_HOP) = {n}
            /\ o < a
            /\ a < n

\* C26: the path attributes of every UPDATE are, for every prefix of its
\* NLRI, the attributes of that prefix's own Loc-RIB route prepared for the
\* session the UPDATE is written to.
C26_OwnAttributes ==
    \A u \in sent : \A p \in Range(u.nlri) :
        p \in DOMAIN loc_rib
        => u.path_attributes =
               _prepare_attributes_for_advertisement(loc_rib[p].path_attributes, u.to).modified

\* ------------------------------------------------------------------ claims on the tie-breaking steps
\* the first AS of a candidate's AS_PATH, 0 when the path is missing or empty
FirstAs(r) ==
    IF has_attribute(r, ATTR_AS_PATH) THEN leftmost_as(get_attribute(r, ATTR_AS_PATH).segments)
    ELSE 0

\* C27: MED is compared only on a neighbour-AS match: the MED step returns
\* non-zero only when both candidates have a first AS in their AS_PATH and it
\* is the same AS; with different first ASes or a candidate whose AS_PATH is
\* empty or missing it returns 0.
C27_MedOnNeighborMatch ==
    cmp.done =>
        (_compare_med(cmp.route_a, cmp.route_b) # 0
         => /\ FirstAs(cmp.route_a) # 0
            /\ FirstAs(cmp.route_a) = FirstAs(cmp.route_b))

\* the session a candidate was learned over is an iBGP session
LearnedOverIbgp(r) == SessionConfig(r.peer_ip).peer_as = local_as

\* the rules before the eBGP/iBGP step tie
TieBeforeStep5(a, b) ==
    /\ _compare_local_pref(a, b) = 0
    /\ _compare_as_path_length(a, b) = 0
    /\ _compare_origin(a, b) = 0
    /\ _compare_med(a, b) = 0

\* C28: when all earlier rules tie, a route learned over an eBGP session wins
\* over a route learned over an iBGP session, also when the iBGP-learned
\* route's AS_PATH is empty or starts with a foreign AS.
C28_EbgpOverIbgp ==
    (cmp.done /\ TieBeforeStep5(cmp.route_a, cmp.route_b)) =>
        /\ (~LearnedOverIbgp(cmp.route_a) /\ LearnedOverIbgp(cmp.route_b)) => cmp.result = -1
        /\ (LearnedOverIbgp(cmp.route_a) /\ ~LearnedOverIbgp(cmp.route_b)) => cmp.result = 1

\* what step 6 is given: whether looking up a candidate's next hop raises, and
\* the cost the callback returns for it
LookupRaises(r) == next_hop(r) \notin DOMAIN igp_cost_lookup

CostOf(r) == igp_cost_lookup[next_hop(r)]

Step6Skipped(a, b) ==
    \/ DOMAIN igp_cost_lookup = {}
    \/ next_hop(a) = ""
    \/ next_hop(b) = ""
    \/ LookupRaises(a)
    \/ LookupRaises(b)
    \/ (CostOf(a) = NoCost /\ CostOf(b) = NoCost)

\* C29: step 6 returns 0 when no callback is set, when the callback raises,
\* when a candidate has no NEXT_HOP or when the cost is unknown for both;
\* with the cost unknown for exactly one candidate the reachable one is
\* preferred; otherwise the lower cost wins. When the rules before it tie and
\* it does not, its result is compare's.
C29_IgpCostStep ==
    cmp.done =>
        LET a == cmp.route_a
            b == cmp.route_b
            r == _compare_igp_metric(a, b)
        IN /\ Step6Skipped(a, b) => r = 0
           /\ ~Step6Skipped(a, b) =>
                  r = (IF CostOf(a) = NoCost THEN 1
                       ELSE IF CostOf(b) = NoCost THEN -1
                       ELSE Sign(CostOf(a), CostOf(b)))
           /\ (TieBeforeStep5(a, b) /\ _compare_ebgp_ibgp(a, b) = 0 /\ r # 0)
                  => cmp.result = r

\* C29 happens: the rules before step 6 tie, the cost is unknown for the first
\* candidate only, and compare prefers the reachable second one
C29_Witness ==
    /\ cmp.done
    /\ TieBeforeStep5(cmp.route_a, cmp.route_b)
    /\ _compare_ebgp_ibgp(cmp.route_a, cmp.route_b) = 0
    /\ ~Step6Skipped(cmp.route_a, cmp.route_b)
    /\ CostOf(cmp.route_a) = NoCost
    /\ CostOf(cmp.route_b) # NoCost
    /\ cmp.result = 1

\* ------------------------------------------------------------------ claims on early collisions
EarlyStates == {STATE_IDLE, STATE_CONNECT, STATE_ACTIVE}

\* the handler of connection c starts in this step and finds the session of
\* "key" by the source address
ArrivesFor(c, key) ==
    /\ conn[c].pc = "new"
    /\ conn'[c].pc # "new"
    /\ conn'[c].sess = key

\* the session holds an incoming connection it accepted in Idle, Connect or Active
HoldsEarlyAccepted(key) ==
    /\ writer[key] \in Conns
    /\ conn[writer[key]].verdict = "accept"
    /\ conn[writer[key]].accepted_in \in EarlyStates

\* C30: an incoming connection for a configured non-passive peer whose session
\* is in Idle, Connect or Active is handed to the session and the session's
\* pending outbound attempt is cancelled; while the session holds that
\* connection no outbound attempt of its own is pending, so none completes
\* and replaces or duplicates it.
C30_EarlyAccept ==
    \A key \in SessionKeys :
        ~SessionConfig(key).passive =>
            /\ \A c \in Conns :
                   (ArrivesFor(c, key) /\ fsm[key] \in EarlyStates)
                   => /\ conn'[c].verdict = "accept"
                      /\ conn'[c].st = "open"
                      /\ writer'[key] = c
                      /\ outbound'[key] # "connecting"
            /\ HoldsEarlyAccepted(key)
                   => /\ outbound[key] # "connecting"
                      /\ outbound'[key] = "open" => outbound[key] = "open"
                      /\ writer'[key] # OutConn

InjectedKeys == {NetworkKey(network) : network \in Networks}

\* C31: whenever a session is (again) Established, every route of the
\* injected table that the daemon has not sent it since is eventually sent to
\* it, unless the session goes down or the route is withdrawn first.
C31_Readvertised ==
    \A key \in PeerKeys : \A p \in InjectedKeys :
        (is_established(key) /\ p \in DOMAIN injected /\ p \notin Announced(key))
        ~> (p \in Announced(key) \/ ~is_established(key) \/ p \notin DOMAIN injected)

\* ------------------------------------------------------------------ claims on the selection
\* C32: the route select_best returns is undominated, compare(r, c) <= 0 for
\* every other candidate c, and every permutation of the same candidates
\* returns the same route.
C32_OrderIndependent ==
    sel.done =>
        /\ \A i \in 1..Len(sel.candidates) :
               sel.candidates[i] # sel.best => compare(sel.best, sel.candidates[i]) <= 0
        /\ \A routes \in Orders(Range(sel.candidates)) : select_best(routes) = sel.best

\* C33: a locally originated route is never displaced by the decision
\* process: once originate_route(p) has installed the local route for p, no
\* UPDATE of a peer for p and no decision cycle takes Loc-RIB[p] away from a
\* route with source "local"
IsLocalIn(loc, prefix) == prefix \in DOMAIN loc /\ loc[prefix].source = "local"

C33_LocalRouteStays ==
    [][\A p \in Originated : IsLocalIn(loc_rib, p) => IsLocalIn(loc_rib', p)]_vars

\* C34: the Loc-RIB dump that _on_session_established(peer_ip) triggers goes
\* to that peer only: no UPDATE of the dump is addressed to another
\* established peer, and the Adj-RIB-Out of every other peer is as before
DumpOf(t) ==
    /\ t.kind = "established"
    /\ tasks' = tasks \ {t}
    /\ last' = "dump"

C34_DumpToNewPeerOnly ==
    [][\A t \in tasks :
          DumpOf(t) => /\ \A u \in sent' : u.to = t.peer_ip
                       /\ \A k \in PeerKeys \ {t.peer_ip} : adj_rib_out'[k] = adj_rib_out[k]]_vars

\* C35: originate_route reports failure without side effects: a call that
\* returns False leaves Loc-RIB as it was, schedules no advertisement and
\* sends no UPDATE; a call that returns True leaves the prefix in Loc-RIB as
\* a local route
C35_OriginateAllOrNothing ==
    [][last' = "originate" =>
          IF api'.result
          THEN IsLocalIn(loc_rib', api'.key)
          ELSE loc_rib' = loc_rib /\ tasks' = tasks /\ sent' = {}]_vars

\* C36: the peer table and the mesh index stay consistent: the mesh index
\* holds exactly the sessions of the table configured accept_any_source,
\* each under its peer_as; add_peer with an existing key and remove_peer of
\* an unknown key change nothing
MeshPeers == {k \in SessionKeys : configs[k].accept_any_source}

C36_IndexMatchesTable ==
    /\ \A k \in MeshPeers :
           /\ configs[k].peer_as \in DOMAIN mesh_sessions
           /\ mesh_sessions[configs[k].peer_as] = k
    /\ \A a \in DOMAIN mesh_sessions :
           /\ mesh_sessions[a] \in MeshPeers
           /\ configs[mesh_sessions[a]].peer_as = a

C36_NoOpCalls ==
    (\/ api'.op = "add_peer" /\ api'.key \in SessionKeys
     \/ api'.op = "remove_peer" /\ api'.key \notin SessionKeys)
    => UNCHANGED <<sessions, mesh_sessions, configs, fsm, outbound>>

C36_TableConsistent == []C36_IndexMatchesTable /\ [][C36_NoOpCalls]_vars

\* C37: the GRE manager's indexes stay consistent: the endpoint index holds
\* exactly one entry per tunnel of the name index (none for a deleted
\* tunnel), no two tunnels share an endpoint, the tunnel count is at most
\* max_tunnels, and a tunnel to an endpoint no tunnel uses can be created
EndpointOf(t) == endpoint_key(t.local_ip, t.remote_ip)

C37_IndexesAgree ==
    LET names == DOMAIN manager._tunnels
        ends == DOMAIN manager._tunnels_by_endpoint
    IN /\ Cardinality(ends) = Cardinality(names)
       /\ \A e \in ends :
              /\ manager._tunnels_by_endpoint[e].name \in names
              /\ manager._tunnels[manager._tunnels_by_endpoint[e].name]
                     = manager._tunnels_by_endpoint[e]
       /\ \A a, b \in names : a # b => EndpointOf(manager._tunnels[a]) # EndpointOf(manager._tunnels[b])
       /\ Cardinality(names) <= max_tunnels

\* the endpoint a configuration gives once the manager has filled in local_ip
ConfigEndpoint(c) ==
    endpoint_key(IF c.local_ip = "" THEN manager_local_ip ELSE c.local_ip, c.remote_ip)

C37_CreatesAgain ==
    LET c == manager'.call
    IN (/\ c.op = "create_tunnel"
        /\ c.name \notin DOMAIN manager._tunnels
        /\ Cardinality(DOMAIN manager._tunnels) < max_tunnels
        /\ \A n \in DOMAIN manager._tunnels : EndpointOf(manager._tunnels[n]) # ConfigEndpoint(c))
       => c.result = "tunnel" /\ c.name \in DOMAIN manager'._tunnels

C37_ManagerConsistent == []C37_IndexesAgree /\ [][C37_CreatesAgain]_vars

\* C38: a tunnel with keepalives enabled goes from up to down on keepalive
\* grounds only with keepalive_retries timeouts counted since the last
\* packet received from the remote, a received packet resets the count, and
\* a tunnel that is up and has never received a packet from its remote is
\* eventually marked down
C38_DownOnlyAfterRetries ==
    (tunnel.state = "up" /\ tunnel'.state = "down" /\ tunnel'.call.op = "keepalive")
    => tunnel'.keepalive_failures >= keepalive_retries

C38_ReceiveResets ==
    (tunnel'.call.op = "receive" /\ tunnel'.call.result) => tunnel'.keepalive_failures = 0

\* C38 (up to down): the two step properties on the failure count
C38_CountedDown == [][C38_DownOnlyAfterRetries]_vars /\ [][C38_ReceiveResets]_vars

\* C38 (silent remote): a tunnel with keepalives enabled that is up and has
\* never received a packet from its remote eventually is marked down (or
\* stops being silent)
C38_Keepalive ==
    (tunnel.state = "up" /\ tunnel.keepalive_interval > 0 /\ ~tunnel.last_keepalive_rx)
        ~> (tunnel.state # "up" \/ tunnel.last_keepalive_rx)

\* C39: with use_sequence set, the sequence numbers of the packets sent
\* successfully are consecutive modulo 2^32 from the counter's start (0 in a
\* new tunnel), none skipped or reused, also after a failed send; with
\* use_sequence clear no packet carries a number and the counter stays
RECURSIVE nth_after(_, _)
nth_after(seq, n) == IF n = 0 THEN seq ELSE nth_after(succ32(seq), n - 1)

C39_ConsecutiveSequence ==
    IF tunnel.use_sequence
    THEN \A i \in 1..Len(tunnel.wire) : tunnel.wire[i] = nth_after(tunnel.base, i - 1)
    ELSE /\ \A i \in 1..Len(tunnel.wire) : tunnel.wire[i] = NoSeq
         /\ tunnel.sequence_tx = tunnel.base

====
